---- MODULE Spec2Model ----
(***************************************************************************)
(* A model of the k-mer encoder, the k-mer cache and the k-mer index of    *)
(* biseqt (src/biseqt/kmers.py).                                           *)
(*                                                                         *)
(* An alphabet is modelled by its number of letters, a sequence by the     *)
(* tuple of its letter indices (Sequence.contents), a table of the SQLite  *)
(* store by the sequence of its rows in rowid order.                       *)
(***************************************************************************)
EXTENDS Integers, Sequences, FiniteSets, TLC

(* ------------------------------ bounds -------------------------------- *)
MaxWordLen == 2    \* word lengths MaxWordLen-1..MaxWordLen of an index
MaxSeqLen == 3     \* sequences of 0..MaxSeqLen letters

VARIABLES
    alphabet,      \* KmerDBWrapper.alphabet: the number of letters
    wordlen,       \* KmerDBWrapper.wordlen
    int_size,      \* 8 * struct.calcsize('P')
    has_cache,     \* KmerIndex.kmer_cache is set
    store,         \* state of the backing store of the object constructed
    log_table,     \* kmer_indexed_[name]: rows (seq, seqid)
    kmers_table,   \* kmers_[name]: rows (kmer, seqid, pos)
    cache_table,   \* seq_kmers_[name]: rows (seq, kmers)
    reads,         \* the sequences the caller holds
    callers,       \* the callers at work on the store at the same time
    call,          \* the last operation called, with its arguments
    ret,           \* what that operation returned
    min_margin,    \* OverlapBuilder.min_margin
    vs,            \* build(): the vertex names collected so far
    es,            \* build(): the edges collected so far
    ws,            \* build(): the weights collected so far
    iG,            \* OverlapGraph.iG: the igraph graph of the object
    pool,          \* segment builder: the seeds not yet in a segment
    segment,       \* segment builder: the segment being grown
    emitted,       \* segment builder: the segments emitted so far
    shift_rolling_sum_width,  \* OverlapBuilder.shift_rolling_sum_width
    min_shift_freq_coeff,     \* OverlapBuilder.min_shift_freq_coeff
    max_shift_freq_coeff      \* OverlapBuilder.max_shift_freq_coeff

\* The state of the query side: the overlap builder and the overlap graph
\* (src/align), and the segment builder.
assembly == <<min_margin, vs, es, ws, iG, pool, segment, emitted,
              shift_rolling_sum_width, min_shift_freq_coeff,
              max_shift_freq_coeff>>

vars == <<alphabet, wordlen, int_size, has_cache, store,
          log_table, kmers_table, cache_table, reads, callers,
          call, ret, assembly>>

\* igraph.Graph(directed=True): the vertex names in vertex id order, the
\* edges (from, to) in edge id order, and the 'weight' attribute of the
\* edges.
EmptyGraph == [vs |-> <<>>, es |-> <<>>, weight |-> <<>>]

\* No overlap builder and no overlap graph is involved.
\* No segment is being grown.
NoSegment == [joined |-> {}]

\* OverlapBuilder.__init__: the defaults of the shift distribution.
DefaultShiftKwargs ==
    /\ shift_rolling_sum_width = 500
    /\ min_shift_freq_coeff = 8
    /\ max_shift_freq_coeff = 15

\* No overlap builder, no overlap graph and no segment builder is involved.
NoAssembly ==
    /\ min_margin = 0 /\ vs = {} /\ es = <<>> /\ ws = <<>>
    /\ iG = EmptyGraph
    /\ pool = {} /\ segment = NoSegment /\ emitted = <<>>
    /\ DefaultShiftKwargs

(* ----------------------------- helpers -------------------------------- *)
Max(a, b) == IF a >= b THEN a ELSE b

Min(a, b) == IF a <= b THEN a ELSE b

Range(s) == {s[i] : i \in 1..Len(s)}

\* The sequences of n-letter alphabets of length l, and of length lo..hi.
Words(n, l) == [1..l -> 0..(n - 1)]

WordsBetween(n, lo, hi) == UNION {Words(n, l) : l \in lo..hi}

\* Python's s[i:j] for 0 <= i and 0 <= j (0-based, clipped to the length).
Slice(s, i, j) == SubSeq(s, i + 1, Min(j, Len(s)))

(* --------------------------- k-mer encoder ---------------------------- *)
DIGITS == <<"0", "1", "2", "3", "4", "5", "6", "7", "8", "9",
            "a", "b", "c", "d", "e", "f", "g", "h", "i", "j",
            "k", "l", "m", "n", "o", "p", "q", "r", "s", "t",
            "u", "v", "w", "x", "y", "z">>

\* The value raised by int() is modelled by a negative number.
ValueError == -1

\* The value of one character of a numeral: its place in DIGITS.
DigitValue(ch) == (CHOOSE i \in 1..Len(DIGITS) : DIGITS[i] = ch) - 1

\* Python's int(as_str, base): 2 <= base <= 36, a non-empty numeral, each
\* digit below the base; the first character is the most significant.
RECURSIVE ParseInt(_, _, _)
ParseInt(as_str, base, acc) ==
    IF as_str = <<>> THEN acc
    ELSE IF DigitValue(Head(as_str)) >= base THEN ValueError
    ELSE ParseInt(Tail(as_str), base, acc * base + DigitValue(Head(as_str)))

PyInt(as_str, base) ==
    IF base < 2 \/ base > 36 \/ as_str = <<>> THEN ValueError
    ELSE ParseInt(as_str, base, 0)

\* The first letter is left out of the numeral.
kmer_as_int_drop_first(contents, alph) ==
    LET as_str == [i \in 1..Len(contents) |-> DIGITS[contents[i] + 1]]
    IN  IF Len(as_str) <= 1 THEN PyInt(as_str, alph)
        ELSE PyInt(Tail(as_str), alph)

\* The numeral is written least significant letter first.
kmer_as_int_lsb_first(contents, alph) ==
    LET n == Len(contents)
        as_str == [i \in 1..n |-> DIGITS[contents[n + 1 - i] + 1]]
    IN  PyInt(as_str, alph)

kmer_as_int(contents, alph) ==
    LET as_str == [i \in 1..Len(contents) |-> DIGITS[contents[i] + 1]]
    IN  PyInt(as_str, alph)

\* One window short: range(len(seq) - wordlen).
as_kmer_seq_short(seq, w) ==
    LET n == Max(0, Len(seq) - w)
        kmers == [p \in 1..n |-> kmer_as_int(Slice(seq, p - 1, p - 1 + w), alphabet)]
    IN  IF \E p \in 1..n : kmers[p] = ValueError THEN <<ValueError>> ELSE kmers

\* for pos in range(len(seq) - wordlen + 1): kmers.append(kmer_as_int(...));
\* entry p of the list is the k-mer at position pos = p - 1.  A ValueError
\* of kmer_as_int ends the call; it is modelled by the list <<ValueError>>.
as_kmer_seq(seq, w) ==
    LET n == Max(0, Len(seq) - w + 1)
        kmers == [p \in 1..n |-> kmer_as_int(Slice(seq, p - 1, p - 1 + w), alphabet)]
    IN  IF \E p \in 1..n : kmers[p] = ValueError THEN <<ValueError>> ELSE kmers

(* ------------------ the encoder as a state machine --------------------- *)
MaxKmerAlphabet == 3   \* encoder alphabets of 2..MaxKmerAlphabet letters
MaxKmerLen == 3        \* encoder word lengths 1..MaxKmerLen

NoCall == [op |-> "none"]

\* No store is involved: the tables stay as they are.
NoStore ==
    /\ has_cache = FALSE /\ store = "none" /\ int_size = 64
    /\ log_table = <<>> /\ kmers_table = <<>> /\ cache_table = <<>>
    /\ reads = <<>> /\ callers = <<>>

InitKmer ==
    /\ alphabet \in 2..MaxKmerAlphabet
    /\ wordlen \in 1..MaxKmerLen
    /\ NoStore
    /\ call = NoCall
    /\ ret = <<>>
    /\ NoAssembly

\* kmer_as_int applied to two k-mers of the word length; each behaviour
\* applies one function to one input.
CallKmerAsInt(a, b) ==
    /\ call = NoCall
    /\ call' = [op |-> "kmer_as_int", a |-> a, b |-> b]
    /\ ret' = <<kmer_as_int(a, alphabet), kmer_as_int(b, alphabet)>>
    /\ UNCHANGED <<assembly, alphabet, wordlen, int_size, has_cache, store,
                   log_table, kmers_table, cache_table, reads, callers>>

\* as_kmer_seq applied to a sequence.
CallAsKmerSeq(seq) ==
    /\ call = NoCall
    /\ call' = [op |-> "as_kmer_seq", seq |-> seq]
    /\ ret' = as_kmer_seq(seq, wordlen)
    /\ UNCHANGED <<assembly, alphabet, wordlen, int_size, has_cache, store,
                   log_table, kmers_table, cache_table, reads, callers>>

NextKmer ==
    \/ /\ call = NoCall
       /\ \E a, b \in Words(alphabet, wordlen) : CallKmerAsInt(a, b)
    \/ /\ call = NoCall
       /\ \E seq \in WordsBetween(alphabet, 0, MaxSeqLen) : CallAsKmerSeq(seq)

SpecKmer == InitKmer /\ [][NextKmer]_vars

\* n to the power e.
RECURSIVE Pow(_, _)
Pow(n, e) == IF e = 0 THEN 1 ELSE n * Pow(n, e - 1)

\* The w digits of n in the given base, most significant first.
DigitDecode(n, w, base) == [i \in 1..w |-> (n \div Pow(base, w - i)) % base]

\* a comes before b in lexicographic order: at the first place where they
\* differ a has the smaller letter.
LexLess(a, b) ==
    \E i \in 1..Len(a) : a[i] < b[i] /\ \A j \in 1..(i - 1) : a[j] = b[j]

\* a comes before b in colexicographic order: at the last place where they
\* differ a has the smaller letter.
ColexLess(a, b) ==
    \E i \in 1..Len(a) : a[i] < b[i] /\ \A j \in (i + 1)..Len(a) : a[j] = b[j]

\* C4: kmer_as_int is injective on the k-mers of one word length over one
\* alphabet: decoding the integer as wordlen digits in base |alphabet|, most
\* significant first, gives back the letter indices, and two different
\* k-mers never get the same integer.
C4_EncodeDecodes ==
    call.op = "kmer_as_int" =>
        /\ DigitDecode(ret[1], wordlen, alphabet) = call.a
        /\ DigitDecode(ret[2], wordlen, alphabet) = call.b
        /\ (call.a # call.b => ret[1] # ret[2])

C4_Witness ==
    /\ call.op = "kmer_as_int"
    /\ wordlen = MaxKmerLen
    /\ call.a # call.b
    /\ call.a[2] = call.b[2]
    /\ call.a[1] = alphabet - 1

\* C5 as stated: the order of the integers of two k-mers of one length is
\* the colexicographic order of their letter tuples.
C5_OrderIsColex ==
    call.op = "kmer_as_int" => ((ret[1] < ret[2]) <=> ColexLess(call.a, call.b))

\* C5 amended: the order of the integers of two k-mers of one length is the
\* lexicographic order of their letter tuples (the first letter is the most
\* significant digit).
C5_OrderIsLex ==
    call.op = "kmer_as_int" => ((ret[1] < ret[2]) <=> LexLess(call.a, call.b))

C5_Witness ==
    /\ call.op = "kmer_as_int"
    /\ wordlen >= 2
    /\ LexLess(call.a, call.b)
    /\ ColexLess(call.b, call.a)
    /\ ret[1] < ret[2]

\* C6: as_kmer_seq returns one integer per window position 0..|S|-w, in
\* increasing order of position (|S|-w+1 of them, none when the sequence is
\* shorter than a word), the one at position pos being kmer_as_int of the w
\* letters that start at pos.
C6_AsKmerSeqWindows ==
    call.op = "as_kmer_seq" =>
        LET n == Len(call.seq) - wordlen + 1
        IN  /\ n >= 0 => Len(ret) = n
            /\ n < 0 => ret = <<>>
            /\ \A pos \in 0..(n - 1) :
                    ret[pos + 1] =
                        kmer_as_int([i \in 1..wordlen |-> call.seq[pos + i]], alphabet)

C6_Witness ==
    /\ call.op = "as_kmer_seq"
    /\ Len(call.seq) = wordlen + 1
    /\ Len(ret) = 2
    /\ ret[1] # ret[2]

(* ---------------------------- construction ----------------------------- *)
\* 8 * struct.calcsize('P') of the platforms the package runs on.
IntSizes == {32, 64}

\* The arguments tried: alphabets of one letter, of two, of DNA, of DNA with
\* an unknown letter, of as many letters as DIGITS has and of one more; word
\* lengths up to one more than half the widest integer.
CtorAlphabets == {1, 2, 4, 5, Len(DIGITS), Len(DIGITS) + 1}

CtorWordLens == 0..(32 + 1)

\* wordlen < (int_size - 1)/2 with the division truncated to an integer.
WordLenAccepted_int_div(w, bits) == w < (bits - 1) \div 2

\* assert wordlen < (int_size - 1)/2. : a float division, so the test is
\* 2 * wordlen < int_size - 1.
WordLenAccepted(w, bits) == 2 * w < bits - 1

InitCtor ==
    /\ alphabet = 0 /\ wordlen = 0      \* not set yet
    /\ int_size \in IntSizes
    /\ has_cache = FALSE
    /\ store = "none"
    /\ log_table = <<>> /\ kmers_table = <<>> /\ cache_table = <<>>
    /\ reads = <<>> /\ callers = <<>>
    /\ call = NoCall
    /\ ret = <<>>
    /\ NoAssembly

\* KmerCache(...) or KmerIndex(...): KmerDBWrapper.__init__ checks the
\* alphabet, then the word length, then the path, and only then runs the
\* init script that creates the tables; KmerIndex.__init__ then checks the
\* kmer_cache it was given ("same": same word length and alphabet).
Construct(cls, a, w, path_ok, kmer_cache) ==
    /\ call = NoCall
    /\ store = "none"
    /\ cls = "KmerCache" => kmer_cache = "none"
    /\ call' = [op |-> "__init__", cls |-> cls, alphabet |-> a, wordlen |-> w,
                path_ok |-> path_ok, kmer_cache |-> kmer_cache]
    /\ alphabet' = IF a <= Len(DIGITS) THEN a ELSE alphabet
    /\ wordlen' = IF a <= Len(DIGITS) /\ WordLenAccepted(w, int_size)
                  THEN w ELSE wordlen
    /\ store' = IF a <= Len(DIGITS) /\ WordLenAccepted(w, int_size) /\ path_ok
                THEN "created" ELSE "none"
    /\ ret' = IF a > Len(DIGITS) THEN "AssertionError: alphabet"
              ELSE IF ~WordLenAccepted(w, int_size) THEN "AssertionError: wordlen"
              ELSE IF ~path_ok THEN "AssertionError: path"
              ELSE IF kmer_cache = "other" THEN "AssertionError: kmer_cache"
              ELSE "ok"
    /\ has_cache' = (a <= Len(DIGITS) /\ WordLenAccepted(w, int_size) /\ path_ok
                     /\ kmer_cache = "same")
    /\ UNCHANGED <<assembly, int_size, log_table, kmers_table, cache_table,
                   reads, callers>>

(* Python integers are unbounded: a k-mer of the longest accepted word       *)
(* length does not fit the 32-bit integers of TLC, so the integer of a       *)
(* k-mer is also computed on numbers held as lists of limbs of LimbBits      *)
(* bits, least significant limb first, without leading zero limbs.           *)
LimbBits == 21

Limb == Pow(2, LimbBits)

\* limbs * m + carry.
RECURSIVE WideMulAdd(_, _, _)
WideMulAdd(limbs, m, carry) ==
    IF limbs = <<>>
    THEN IF carry = 0 THEN <<>>
         ELSE <<carry % Limb>> \o WideMulAdd(<<>>, m, carry \div Limb)
    ELSE LET t == Head(limbs) * m + carry
         IN  <<t % Limb>> \o WideMulAdd(Tail(limbs), m, t \div Limb)

\* int(as_str, base) on unbounded integers.
RECURSIVE WideParseInt(_, _, _)
WideParseInt(as_str, base, acc) ==
    IF as_str = <<>> THEN acc
    ELSE WideParseInt(Tail(as_str), base,
                      WideMulAdd(acc, base, DigitValue(Head(as_str))))

kmer_as_int_wide(contents, alph) ==
    LET as_str == [i \in 1..Len(contents) |-> DIGITS[contents[i] + 1]]
    IN  WideParseInt(as_str, alph, <<>>)

\* The k-mers tried on a constructed object: one letter repeated, and the
\* second letter followed by first letters.
KmersTried ==
    {[i \in 1..wordlen |-> c] : c \in {0, alphabet - 1}}
        \cup {[i \in 1..wordlen |-> IF i = 1 THEN 1 ELSE 0]}

\* kmer_as_int on a k-mer of the object's word length and alphabet.
CallKmerAsIntWide(contents) ==
    /\ call.op = "__init__"
    /\ ret = "ok"
    /\ alphabet >= 2 /\ wordlen >= 1
    /\ call' = [op |-> "kmer_as_int", contents |-> contents]
    /\ ret' = kmer_as_int_wide(contents, alphabet)
    /\ UNCHANGED <<assembly, alphabet, wordlen, int_size, has_cache, store,
                   log_table, kmers_table, cache_table, reads, callers>>

NextCtor ==
    \/ /\ call = NoCall
       /\ \E cls \in {"KmerCache", "KmerIndex"}, a \in CtorAlphabets,
             w \in CtorWordLens, path_ok \in BOOLEAN,
             kmer_cache \in {"none", "same", "other"} :
               Construct(cls, a, w, path_ok, kmer_cache)
    \/ \E contents \in KmersTried : CallKmerAsIntWide(contents)

SpecCtor == InitCtor /\ [][NextCtor]_vars

\* C7: construction fails, with no table created, when the alphabet has
\* more than 36 letters or the word length is not below (int_size - 1)/2
\* (32 is refused and 31 accepted on 64 bits); with at most 36 letters and a
\* word length below the bound it succeeds and creates the tables, given a
\* usable database path and, for an index, a kmer_cache of the same word
\* length and alphabet if one is passed.
C7_ConstructionLimits ==
    call.op = "__init__" =>
        /\ (call.alphabet > 36 \/ 2 * call.wordlen >= int_size - 1)
               => (ret # "ok" /\ store = "none")
        /\ (call.alphabet <= 36 /\ int_size = 64 /\ call.wordlen >= 32)
               => ret = "AssertionError: wordlen"
        /\ (call.alphabet <= 36 /\ 2 * call.wordlen < int_size - 1
               /\ call.path_ok /\ call.kmer_cache # "other")
               => (ret = "ok" /\ store = "created"
                   /\ alphabet = call.alphabet /\ wordlen = call.wordlen)

C7_Witness ==
    /\ call.op = "__init__"
    /\ int_size = 64
    /\ call.wordlen = 31
    /\ call.alphabet = 36
    /\ ret = "ok"
    /\ store = "created"

\* The number is below 2^63: it has at most 63 bits, three limbs.
FitsInt64(limbs) == Len(limbs) * LimbBits <= 63

\* C8: on an object that construction accepted with 64-bit integers, the
\* integer of every k-mer fits one machine integer (it is below 2^63).
C8_KmerFitsMachineInt ==
    (call.op = "kmer_as_int" /\ store = "created" /\ int_size = 64)
        => FitsInt64(ret)

(* ------------------------ the cache and the index ---------------------- *)
\* Sequence.content_id: a digest of the letters of the sequence and of
\* nothing else; two sequences have the same one iff their letters agree.
content_id(seq) == seq

\* str(n) of a non-negative integer.
RECURSIVE IntToStr(_)
IntToStr(n) ==
    IF n < 10 THEN <<DIGITS[n + 1]>>
    ELSE IntToStr(n \div 10) \o <<DIGITS[(n % 10) + 1]>>

\* The items are written one after the other with nothing between them.
RECURSIVE ReprItems_no_separator(_)
ReprItems_no_separator(list) ==
    IF list = <<>> THEN <<>>
    ELSE IntToStr(Head(list)) \o ReprItems_no_separator(Tail(list))

\* repr() of a list of integers: "[1, 2, 3]".
RECURSIVE ReprItems(_)
ReprItems(list) ==
    IF list = <<>> THEN <<>>
    ELSE IF Len(list) = 1 THEN IntToStr(Head(list))
    ELSE IntToStr(Head(list)) \o <<",", " ">> \o ReprItems(Tail(list))

Repr(list) == <<"[">> \o ReprItems(list) \o <<"]">>

\* eval() of the text of a list of integers: cur is the numeral being read,
\* out the items read so far.
RECURSIVE EvalItems(_, _, _)
EvalItems(text, cur, out) ==
    IF text = <<>> THEN out
    ELSE IF Head(text) \in {"[", " "} THEN EvalItems(Tail(text), cur, out)
    ELSE IF Head(text) \in {",", "]"}
         THEN EvalItems(Tail(text), <<>>,
                        IF cur = <<>> THEN out ELSE Append(out, PyInt(cur, 10)))
    ELSE EvalItems(Tail(text), Append(cur, Head(text)), out)

Eval(text) == EvalItems(text, <<>>, <<>>)

\* SELECT kmers FROM seq_kmers WHERE seq = ?
SelectKmers(table, cid) == SelectSeq(table, LAMBDA row : row.seq = cid)

\* KmerCache.as_kmer_seq: the first row found is evaluated and returned; on
\* a miss the list is computed, its repr() inserted, and the list returned.
\* Gives the value returned and the table left behind.
cache_as_kmer_seq(table, seq) ==
    LET rows == SelectKmers(table, content_id(seq))
        kmer_seq == as_kmer_seq(seq, wordlen)
    IN  IF rows # <<>>
        THEN [ret |-> Eval(rows[1].kmers), table |-> table]
        ELSE [ret |-> kmer_seq,
              table |-> Append(table, [seq |-> content_id(seq),
                                       kmers |-> Repr(kmer_seq)])]

\* SELECT seqid FROM kmer_indexed WHERE seq = ?
SelectSeqid(table, cid) == SelectSeq(table, LAMBDA row : row.seq = cid)

\* seqid INTEGER PRIMARY KEY AUTOINCREMENT: one more than the largest so far.
RECURSIVE MaxSeqid(_)
MaxSeqid(table) ==
    IF table = <<>> THEN 0 ELSE Max(Head(table).seqid, MaxSeqid(Tail(table)))

\* The positions are counted from one.
KmerRows_from_one(kmer_seq, seqid) ==
    [p \in 1..Len(kmer_seq) |-> [kmer |-> kmer_seq[p], seqid |-> seqid, pos |-> p]]

\* executemany over enumerate(kmer_seq): one row per entry of the list.
KmerRows(kmer_seq, seqid) ==
    [p \in 1..Len(kmer_seq) |-> [kmer |-> kmer_seq[p], seqid |-> seqid, pos |-> p - 1]]

\* KmerIndex.hits: SELECT seqid, pos FROM kmers WHERE kmer = ?
hits(kmer) ==
    LET rows == SelectSeq(kmers_table, LAMBDA row : row.kmer = kmer)
    IN  [i \in 1..Len(rows) |-> <<rows[i].seqid, rows[i].pos>>]

\* The k-mers of a table in the order of their first row.
RECURSIVE DistinctKmers(_, _)
DistinctKmers(table, seen) ==
    IF table = <<>> THEN <<>>
    ELSE IF Head(table).kmer \in seen THEN DistinctKmers(Tail(table), seen)
    ELSE <<Head(table).kmer>>
             \o DistinctKmers(Tail(table), seen \cup {Head(table).kmer})

\* The positions of a k-mer in one sequence, from hits().
PositionsIn(kmer, seqid) ==
    LET rows == SelectSeq(hits(kmer), LAMBDA hit : hit[1] = seqid)
    IN  [i \in 1..Len(rows) |-> rows[i][2]]

\* All pairs of one position from each list.
Cross(A, B) ==
    [n \in 1..(Len(A) * Len(B)) |->
        <<A[((n - 1) \div Len(B)) + 1], B[((n - 1) % Len(B)) + 1]>>]

RECURSIVE SeedsOver(_, _, _)
SeedsOver(kmer_list, a, b) ==
    IF kmer_list = <<>> THEN <<>>
    ELSE Cross(PositionsIn(Head(kmer_list), a), PositionsIn(Head(kmer_list), b))
             \o SeedsOver(Tail(kmer_list), a, b)

\* seeds(seq-id-a, seq-id-b): for every k-mer of the index, the cross
\* product of its positions in a with its positions in b.
seeds(a, b) == SeedsOver(DistinctKmers(kmers_table, {}), a, b)

(* ------------------ the index as a state machine ----------------------- *)
\* The reads are over the two-letter alphabet 'HT'; the first is of
\* MaxSeqLen letters, the second of MinSeqLen or of MaxSeqLen letters.
ReadAlphabet == 2

MinSeqLen == MaxSeqLen - 2

\* An index (with or without a kmer_cache) has just been constructed on an
\* empty store; the caller holds two reads.
Init ==
    /\ alphabet = ReadAlphabet
    /\ wordlen \in (MaxWordLen - 1)..MaxWordLen
    /\ int_size = 64
    /\ has_cache \in BOOLEAN
    /\ store = "created"
    /\ log_table = <<>> /\ kmers_table = <<>> /\ cache_table = <<>>
    /\ reads \in Words(alphabet, MaxSeqLen)
                     \X (Words(alphabet, MinSeqLen) \cup Words(alphabet, MaxSeqLen))
    /\ callers = <<>>
    /\ call = NoCall
    /\ ret = <<>>
    /\ NoAssembly

\* hits() and seeds() only read the store: whatever is called after one of
\* them finds the store as it was before, so a behaviour is followed up to
\* its first query and no further.
Queried == call.op \in {"hits", "seeds"}

\* The row is inserted again without looking the content id up.
IndexKmers_no_lookup(seq) ==
    LET cached == cache_as_kmer_seq(cache_table, seq)
        kmer_seq == IF has_cache THEN cached.ret ELSE as_kmer_seq(seq, wordlen)
        seqid == MaxSeqid(log_table) + 1
    IN  /\ ~Queried
        /\ cache_table' = IF has_cache THEN cached.table ELSE cache_table
        /\ call' = [op |-> "index_kmers", seq |-> seq,
                    skipped |-> SelectSeqid(log_table, content_id(seq)) # <<>>]
        /\ log_table' = Append(log_table, [seq |-> content_id(seq), seqid |-> seqid])
        /\ kmers_table' = kmers_table \o KmerRows(kmer_seq, seqid)
        /\ ret' = seqid
        /\ UNCHANGED <<assembly, alphabet, wordlen, int_size, has_cache, store, reads,
                       callers>>

\* KmerIndex.index_kmers: the list of k-mers comes from the cache if there is
\* one; a sequence whose content id is in the log table is skipped and its
\* seqid returned; otherwise a log row and one row per k-mer are inserted.
\* call.skipped records the message 'already indexed, skipping'.
IndexKmers(seq) ==
    LET cached == cache_as_kmer_seq(cache_table, seq)
        kmer_seq == IF has_cache THEN cached.ret ELSE as_kmer_seq(seq, wordlen)
        found == SelectSeqid(log_table, content_id(seq))
        seqid == MaxSeqid(log_table) + 1
    IN  /\ ~Queried
        /\ cache_table' = IF has_cache THEN cached.table ELSE cache_table
        /\ call' = [op |-> "index_kmers", seq |-> seq, skipped |-> found # <<>>]
        /\ IF found # <<>>
           THEN /\ ret' = found[1].seqid
                /\ UNCHANGED <<log_table, kmers_table>>
           ELSE /\ log_table' = Append(log_table,
                                       [seq |-> content_id(seq), seqid |-> seqid])
                /\ kmers_table' = kmers_table \o KmerRows(kmer_seq, seqid)
                /\ ret' = seqid
        /\ UNCHANGED <<assembly, alphabet, wordlen, int_size, has_cache, store, reads,
                       callers>>

\* KmerIndex.hits(kmer).
Hits(kmer) ==
    /\ ~Queried
    /\ call' = [op |-> "hits", kmer |-> kmer]
    /\ ret' = hits(kmer)
    /\ UNCHANGED <<assembly, alphabet, wordlen, int_size, has_cache, store,
                   log_table, kmers_table, cache_table, reads, callers>>

\* seeds(a, b) on two indexed sequences.
Seeds(a, b) ==
    /\ ~Queried
    /\ call' = [op |-> "seeds", a |-> a, b |-> b]
    /\ ret' = seeds(a, b)
    /\ UNCHANGED <<assembly, alphabet, wordlen, int_size, has_cache, store,
                   log_table, kmers_table, cache_table, reads, callers>>

\* KmerCache.as_kmer_seq(seq) on the cache the index uses; call.hit tells
\* whether the entry was found.
CacheAsKmerSeq(seq) ==
    /\ ~Queried
    /\ has_cache
    /\ LET cached == cache_as_kmer_seq(cache_table, seq)
       IN  /\ call' = [op |-> "KmerCache.as_kmer_seq", seq |-> seq,
                       hit |-> SelectKmers(cache_table, content_id(seq)) # <<>>]
           /\ ret' = cached.ret
           /\ cache_table' = cached.table
    /\ UNCHANGED <<assembly, alphabet, wordlen, int_size, has_cache, store,
                   log_table, kmers_table, reads, callers>>

Seqids == {log_table[i].seqid : i \in 1..Len(log_table)}

Next ==
    \/ \E seq \in Range(reads) : IndexKmers(seq)
    \/ \E kmer \in 0..Pow(alphabet, wordlen) : Hits(kmer)
    \/ \E a, b \in Seqids : Seeds(a, b)
    \/ \E seq \in Range(reads) : CacheAsKmerSeq(seq)

Spec == Init /\ [][Next]_vars

\* The read registered under a seqid, and its w letters from position pos.
ReadOf(seqid) ==
    LET row == CHOOSE r \in Range(log_table) : r.seqid = seqid
    IN  CHOOSE s \in Range(reads) : content_id(s) = row.seq

Window(s, pos) == [i \in 1..wordlen |-> s[pos + i]]

WindowPositions(s) == 0..(Len(s) - wordlen)

NoDuplicates(list) ==
    \A m, n \in 1..Len(list) : m # n => list[m] # list[n]

\* How many entries of a list equal x.
CountIn(list, x) == Cardinality({p \in 1..Len(list) : list[p] = x})

\* C1: seeds(S, T) yields exactly the pairs (i, j) of window positions with
\* S[i:i+w] = T[j:j+w], each of them once.
C1_SeedsAreTheMatches ==
    call.op = "seeds" =>
        LET S == ReadOf(call.a)
            T == ReadOf(call.b)
        IN  /\ Range(ret) = {ij \in WindowPositions(S) \X WindowPositions(T) :
                                Window(S, ij[1]) = Window(T, ij[2])}
            /\ NoDuplicates(ret)

C1_Witness ==
    /\ call.op = "seeds"
    /\ call.a # call.b
    /\ Len(ret) >= 2
    /\ \E n \in 1..Len(ret) : ret[n][1] # ret[n][2]
    /\ Len(ret) < Cardinality(WindowPositions(ReadOf(call.a)))
                     * Cardinality(WindowPositions(ReadOf(call.b)))

\* The positions that a list of hits gives for one sequence.
PositionsOf(hit_list, seqid) ==
    LET rows == SelectSeq(hit_list, LAMBDA hit : hit[1] = seqid)
    IN  [i \in 1..Len(rows) |-> rows[i][2]]

\* C2: after any sequence of index_kmers calls, for every indexed sequence S
\* with id s and every k-mer k, the rows (s, pos) that hits(k) returns are
\* exactly the positions 0 <= pos <= |S| - w whose window encodes to k, each
\* once, as many as k occurs in as_kmer_seq(S); hits(k) returns no row of a
\* sequence that is not registered.
C2_HitsAreTheOccurrences ==
    call.op = "hits" =>
        /\ \A s \in Seqids :
              LET S == ReadOf(s)
                  found == PositionsOf(ret, s)
              IN  /\ Range(found) = {pos \in WindowPositions(S) :
                          kmer_as_int(Window(S, pos), alphabet) = call.kmer}
                  /\ NoDuplicates(found)
                  /\ Len(found) = CountIn(as_kmer_seq(S, wordlen), call.kmer)
        /\ \A n \in 1..Len(ret) : ret[n][1] \in Seqids

C2_Witness ==
    /\ call.op = "hits"
    /\ Len(log_table) = 2
    /\ \E m, n \in 1..Len(ret) :
          /\ ret[m][1] = ret[n][1] /\ ret[m][2] # ret[n][2]
    /\ \E m, n \in 1..Len(ret) : ret[m][1] # ret[n][1]
    /\ \E s \in Seqids : Len(PositionsIn(call.kmer, s)) < Len(ReadOf(s)) - wordlen + 1

\* C3: index_kmers on a sequence whose content id is registered returns the
\* seqid of the first insert and changes neither the log table nor the
\* k-mer table, so hits(k) is the same for every k-mer.
C3_ReindexChangesNothing ==
    [][(/\ call'.op = "index_kmers"
        /\ SelectSeqid(log_table, content_id(call'.seq)) # <<>>)
       => /\ ret' = SelectSeqid(log_table, content_id(call'.seq))[1].seqid
          /\ log_table' = log_table
          /\ kmers_table' = kmers_table
          /\ \A kmer \in 0..Pow(alphabet, wordlen) : hits(kmer)' = hits(kmer)]_vars

\* The state after a second index_kmers of the first of two indexed reads.
C3_Witness ==
    /\ call.op = "index_kmers"
    /\ call.skipped
    /\ Len(log_table) = 2
    /\ ret = 1
    /\ Len(hits(kmers_table[1].kmer)) >= 1

\* C9: KmerCache.as_kmer_seq(S) returns what as_kmer_seq(S, wordlen) returns,
\* on a miss (which stores the entry) and on a hit (which reads it).
C9_CacheRoundTrip ==
    call.op = "KmerCache.as_kmer_seq" =>
        /\ ret = as_kmer_seq(call.seq, wordlen)
        /\ SelectKmers(cache_table, content_id(call.seq)) # <<>>
        /\ \A n \in 1..Len(cache_table) :
              cache_table[n].seq = content_id(call.seq)
                  => Eval(cache_table[n].kmers) = as_kmer_seq(call.seq, wordlen)

C9_Witness ==
    /\ call.op = "KmerCache.as_kmer_seq"
    /\ call.hit
    /\ Len(ret) >= 2
    /\ ret[1] # ret[2]

(* ----------------------- two callers, one store ------------------------ *)
(* Two objects of the same kind (two caches, or two indexes without a      *)
(* cache) opened on the same database file serve one call each for the     *)
(* same sequence.  "with self.connection() as conn" opens a deferred       *)
(* transaction on the caller's own connection and ends it on leaving the   *)
(* block: commit, or rollback if an exception escapes.  The store locks    *)
(* are SQLite's: reading takes a shared lock, the first write a reserved   *)
(* lock (refused while another connection holds one), commit an exclusive  *)
(* lock (refused while another connection holds any lock); with no busy    *)
(* handler set a refused lock raises BusyError at once.  Rows written are  *)
(* seen by the other connection only after commit.                         *)
Callers == {1, 2}

Other(p) == 3 - p

Idle(kind, seq) ==
    [kind |-> kind, seq |-> seq, pc |-> "lookup", lock |-> "none",
     kmer_seq |-> <<>>, seqid |-> 0, log_rows |-> <<>>, kmer_rows |-> <<>>,
     result |-> "none"]

InitConc ==
    /\ alphabet = ReadAlphabet
    /\ wordlen \in (MaxWordLen - 1)..MaxWordLen
    /\ int_size = 64
    /\ has_cache = FALSE
    /\ store = "created"
    /\ log_table = <<>> /\ kmers_table = <<>> /\ cache_table = <<>>
    /\ reads \in {<<seq>> : seq \in Words(alphabet, MaxSeqLen)}
    /\ callers \in {[p \in Callers |-> Idle(kind, reads[1])] :
                        kind \in {"KmerCache", "KmerIndex"}}
    /\ call = NoCall
    /\ ret = <<>>
    /\ NoAssembly

ConcUnchanged == UNCHANGED <<assembly, alphabet, wordlen, int_size, has_cache, store,
                             reads, call, ret>>

\* KmerCache.as_kmer_seq, first with-block: the SELECT and, on a hit, the
\* return; the transaction ends with the block.  On a miss the list is then
\* computed outside of any transaction.
CacheLookup(p) ==
    LET me == callers[p]
        rows == SelectKmers(cache_table, content_id(me.seq))
    IN  /\ me.kind = "KmerCache" /\ me.pc = "lookup"
        /\ callers' = [callers EXCEPT ![p] =
              IF rows # <<>>
              THEN [me EXCEPT !.pc = "done", !.result = "hit"]
              ELSE [me EXCEPT !.pc = "insert",
                              !.kmer_seq = as_kmer_seq(me.seq, wordlen)]]
        /\ UNCHANGED <<log_table, kmers_table, cache_table>>
        /\ ConcUnchanged

\* KmerCache.as_kmer_seq, second with-block: the INSERT and the commit.
CacheInsert(p) ==
    LET me == callers[p]
    IN  /\ me.kind = "KmerCache" /\ me.pc = "insert"
        /\ IF callers[Other(p)].lock # "none"
           THEN /\ callers' = [callers EXCEPT ![p] =
                       [me EXCEPT !.pc = "done", !.result = "BusyError"]]
                /\ UNCHANGED cache_table
           ELSE /\ cache_table' = Append(cache_table,
                       [seq |-> content_id(me.seq), kmers |-> Repr(me.kmer_seq)])
                /\ callers' = [callers EXCEPT ![p] =
                       [me EXCEPT !.pc = "done", !.result = "miss"]]
        /\ UNCHANGED <<log_table, kmers_table>>
        /\ ConcUnchanged

\* KmerIndex.index_kmers up to the SELECT: the list is computed, the
\* transaction opens and the log table is read under a shared lock; if the
\* sequence is found its seqid is returned and the transaction ends.
IndexLookup(p) ==
    LET me == callers[p]
        found == SelectSeqid(log_table, content_id(me.seq))
    IN  /\ me.kind = "KmerIndex" /\ me.pc = "lookup"
        /\ callers' = [callers EXCEPT ![p] =
              IF found # <<>>
              THEN [me EXCEPT !.pc = "done", !.result = "skipped",
                              !.seqid = found[1].seqid,
                              !.kmer_seq = as_kmer_seq(me.seq, wordlen)]
              ELSE [me EXCEPT !.pc = "insert", !.lock = "shared",
                              !.kmer_seq = as_kmer_seq(me.seq, wordlen)]]
        /\ UNCHANGED <<log_table, kmers_table, cache_table>>
        /\ ConcUnchanged

\* INSERT INTO the log table; SELECT last_insert_rowid().  The write needs
\* the reserved lock; BusyError leaves the block and rolls back.
IndexInsertLog(p) ==
    LET me == callers[p]
        seqid == MaxSeqid(log_table) + 1
    IN  /\ me.kind = "KmerIndex" /\ me.pc = "insert"
        /\ callers' = [callers EXCEPT ![p] =
              IF callers[Other(p)].lock = "reserved"
              THEN [me EXCEPT !.pc = "done", !.lock = "none",
                              !.result = "BusyError"]
              ELSE [me EXCEPT !.pc = "insert_kmers", !.lock = "reserved",
                              !.seqid = seqid,
                              !.log_rows = <<[seq |-> content_id(me.seq),
                                              seqid |-> seqid]>>]]
        /\ UNCHANGED <<log_table, kmers_table, cache_table>>
        /\ ConcUnchanged

\* executemany: the k-mer rows, in the caller's transaction.
IndexInsertKmers(p) ==
    LET me == callers[p]
    IN  /\ me.kind = "KmerIndex" /\ me.pc = "insert_kmers"
        /\ callers' = [callers EXCEPT ![p] =
              [me EXCEPT !.pc = "commit",
                         !.kmer_rows = KmerRows(me.kmer_seq, me.seqid)]]
        /\ UNCHANGED <<log_table, kmers_table, cache_table>>
        /\ ConcUnchanged

\* Leaving the with-block: the commit needs the exclusive lock; BusyError
\* rolls the transaction back.
IndexCommit(p) ==
    LET me == callers[p]
    IN  /\ me.kind = "KmerIndex" /\ me.pc = "commit"
        /\ IF callers[Other(p)].lock # "none"
           THEN /\ callers' = [callers EXCEPT ![p] =
                       [me EXCEPT !.pc = "done", !.lock = "none",
                                  !.log_rows = <<>>, !.kmer_rows = <<>>,
                                  !.result = "BusyError"]]
                /\ UNCHANGED <<log_table, kmers_table>>
           ELSE /\ log_table' = log_table \o me.log_rows
                /\ kmers_table' = kmers_table \o me.kmer_rows
                /\ callers' = [callers EXCEPT ![p] =
                       [me EXCEPT !.pc = "done", !.lock = "none",
                                  !.log_rows = <<>>, !.kmer_rows = <<>>,
                                  !.result = "indexed"]]
        /\ UNCHANGED cache_table
        /\ ConcUnchanged

NextConc ==
    \/ \E p \in Callers : CacheLookup(p)
    \/ \E p \in Callers : CacheInsert(p)
    \/ \E p \in Callers : IndexLookup(p)
    \/ \E p \in Callers : IndexInsertLog(p)
    \/ \E p \in Callers : IndexInsertKmers(p)
    \/ \E p \in Callers : IndexCommit(p)

SpecConc == InitConc /\ [][NextConc]_vars

\* The rows the store holds for the content id of the sequence.
EntriesFor(seq) ==
    IF callers[1].kind = "KmerCache"
    THEN Len(SelectKmers(cache_table, content_id(seq)))
    ELSE Len(SelectSeqid(log_table, content_id(seq)))

\* C10: when two callers asked the same store for the same uncached (or
\* unindexed) sequence and both are done, the store holds exactly one entry
\* for its content id.
C10_OneEntryPerContentId ==
    (\A p \in Callers : callers[p].pc = "done") => EntriesFor(reads[1]) = 1

(* ------------------- interrupted index_kmers calls ---------------------- *)
(* Two KmerIndex objects on the same database file index the same          *)
(* sequence; a call may be interrupted inside its with-block (an exception *)
(* raised by the executemany generator, a KeyboardInterrupt, BusyError),   *)
(* and the caller may then call index_kmers again.  executemany writes the *)
(* k-mer rows one at a time into the caller's open transaction.            *)
MaxInterrupts == 2   \* interruptions per behaviour

InitAtomic ==
    /\ alphabet = ReadAlphabet
    /\ wordlen \in (MaxWordLen - 1)..MaxWordLen
    /\ int_size = 64
    /\ has_cache = FALSE
    /\ store = "created"
    /\ log_table = <<>> /\ kmers_table = <<>> /\ cache_table = <<>>
    /\ reads \in {<<seq>> : seq \in Words(alphabet, MaxSeqLen)}
    /\ callers = [p \in Callers |-> Idle("KmerIndex", reads[1])]
    /\ call = [op |-> "index_kmers", interrupted |-> [p \in Callers |-> 0]]
    /\ ret = <<>>
    /\ NoAssembly

\* One row of the executemany; after the last one the block is left.
IndexInsertKmerRow(p) ==
    LET me == callers[p]
        written == Len(me.kmer_rows)
    IN  /\ me.kind = "KmerIndex" /\ me.pc = "insert_kmers"
        /\ callers' = [callers EXCEPT ![p] =
              IF written < Len(me.kmer_seq)
              THEN [me EXCEPT !.kmer_rows = Append(me.kmer_rows,
                        KmerRows(me.kmer_seq, me.seqid)[written + 1])]
              ELSE [me EXCEPT !.pc = "commit"]]
        /\ UNCHANGED <<log_table, kmers_table, cache_table>>
        /\ ConcUnchanged

\* The rows written so far stay in the store: what a connection in
\* autocommit mode (no with-block) would leave behind.
Interrupt_autocommit(p) ==
    LET me == callers[p]
    IN  /\ me.kind = "KmerIndex"
        /\ me.pc \in {"insert", "insert_kmers", "commit"}
        /\ call.interrupted[1] + call.interrupted[2] < MaxInterrupts
        /\ log_table' = log_table \o me.log_rows
        /\ kmers_table' = kmers_table \o me.kmer_rows
        /\ callers' = [callers EXCEPT ![p] =
              [me EXCEPT !.pc = "done", !.lock = "none", !.log_rows = <<>>,
                         !.kmer_rows = <<>>, !.result = "interrupted"]]
        /\ call' = [call EXCEPT !.interrupted[p] = @ + 1]
        /\ UNCHANGED <<assembly, alphabet, wordlen, int_size, has_cache, store, reads,
                       ret, cache_table>>

\* An exception leaves the with-block of index_kmers: the connection's
\* context manager rolls the transaction back, so the registry row and the
\* k-mer rows written in it are gone, and the locks are released.
Interrupt(p) ==
    LET me == callers[p]
    IN  /\ me.kind = "KmerIndex"
        /\ me.pc \in {"insert", "insert_kmers", "commit"}
        /\ call.interrupted[1] + call.interrupted[2] < MaxInterrupts
        /\ callers' = [callers EXCEPT ![p] =
              [me EXCEPT !.pc = "done", !.lock = "none", !.log_rows = <<>>,
                         !.kmer_rows = <<>>, !.result = "interrupted"]]
        /\ call' = [call EXCEPT !.interrupted[p] = @ + 1]
        /\ UNCHANGED <<assembly, alphabet, wordlen, int_size, has_cache, store, reads,
                       ret, log_table, kmers_table, cache_table>>

\* A later index_kmers(S) by a caller whose call was interrupted or refused.
IndexAgain(p) ==
    LET me == callers[p]
    IN  /\ me.kind = "KmerIndex" /\ me.pc = "done"
        /\ me.result \in {"interrupted", "BusyError"}
        /\ call.interrupted[p] > 0
        /\ callers' = [callers EXCEPT ![p] = Idle("KmerIndex", me.seq)]
        /\ UNCHANGED <<log_table, kmers_table, cache_table, call>>
        /\ UNCHANGED <<assembly, alphabet, wordlen, int_size, has_cache, store, reads,
                       ret>>

NextAtomic ==
    \/ \E p \in Callers : IndexLookup(p)
    \/ \E p \in Callers : IndexInsertLog(p)
    \/ \E p \in Callers : IndexInsertKmerRow(p)
    \/ \E p \in Callers : IndexCommit(p)
    \/ \E p \in Callers : Interrupt(p)
    \/ \E p \in Callers : IndexAgain(p)

SpecAtomic == InitAtomic /\ [][NextAtomic]_vars

\* The k-mer rows of the store that carry the seqid, in table order.
RowsOfSeqid(seqid) == SelectSeq(kmers_table, LAMBDA row : row.seqid = seqid)

\* The store holds S completely: one registry row and exactly S's k-mer rows.
IndexedCompletely(seq) ==
    LET found == SelectSeqid(log_table, content_id(seq))
    IN  /\ Len(found) = 1
        /\ RowsOfSeqid(found[1].seqid) =
               KmerRows(as_kmer_seq(seq, wordlen), found[1].seqid)
        /\ Len(kmers_table) = Len(as_kmer_seq(seq, wordlen))

\* C11: an index_kmers(S) interrupted after its registry row was written
\* leaves neither the registry row nor any k-mer row of S in the store (the
\* store holds S completely or not at all, and holds it only once a call
\* has returned normally), and a later index_kmers(S) that returns leaves
\* S indexed completely.
C11_InsertIsAtomic ==
    /\ \/ log_table = <<>> /\ kmers_table = <<>>
       \/ IndexedCompletely(reads[1])
    /\ log_table # <<>> =>
           \E p \in Callers : callers[p].result \in {"indexed", "skipped"}
    /\ \A p \in Callers :
           callers[p].result \in {"indexed", "skipped"} =>
               IndexedCompletely(reads[1])

\* A call interrupted between two k-mer rows, registry row written, has been
\* followed by a call of the same caller that indexed S.
C11_Witness ==
    \E p \in Callers :
        /\ call.op = "index_kmers"
        /\ call.interrupted[p] > 0
        /\ callers[p].result = "indexed"
        /\ callers[Other(p)].pc = "lookup"
        /\ Len(kmers_table) >= 2

(* --------------------- connections and with-blocks ---------------------- *)
(* A KmerCache (object 1) and a KmerIndex without kmer_cache (object 2)    *)
(* on the same store serve calls one after the other.  Each object keeps   *)
(* one connection in self._connection: __init__ opens it to run the        *)
(* init_script, and connection() hands the same object out again.  An      *)
(* operation is a sequence of with-blocks on that connection; entering a   *)
(* block begins a transaction, leaving it commits, or rolls back when an   *)
(* exception leaves it.                                                    *)
CacheObject == 1

IndexObject == 2

\* The object after its constructor has run.
Constructed(kind) ==
    [kind |-> kind, connection |-> "open", opened |-> 1, txn |-> "none"]

\* connection(reset) closes nothing and opens a connection only when there
\* is none or a reset is asked for.
connection(self, reset) ==
    IF reset \/ self.connection = "None"
    THEN [self EXCEPT !.connection = "open", !.opened = @ + 1]
    ELSE self

Operations == {"cached_seqs", "as_kmer_seq", "index_kmers", "hits", "kmers",
               "create_sql_index"}

ObjectOf(op) ==
    IF op \in {"cached_seqs", "as_kmer_seq"} THEN CacheObject ELSE IndexObject

\* The with-blocks an operation starts with.
BlocksOf(op) ==
    CASE op = "cached_seqs" -> <<"select_seqs">>
      [] op = "as_kmer_seq" -> <<"select_kmers">>
      [] op = "index_kmers" -> <<"index">>
      [] op = "hits" -> <<"select_hits">>
      [] op = "kmers" -> <<"create_index", "select_distinct">>
      [] op = "create_sql_index" -> <<"create_index">>

InitHandles ==
    /\ alphabet = ReadAlphabet
    /\ wordlen \in (MaxWordLen - 1)..MaxWordLen
    /\ int_size = 64
    /\ has_cache = FALSE
    /\ store = "created"
    /\ log_table = <<>> /\ kmers_table = <<>> /\ cache_table = <<>>
    /\ reads \in {<<seq>> : seq \in Words(alphabet, MaxSeqLen)}
    /\ callers = [p \in Callers |->
                     Constructed(IF p = CacheObject THEN "KmerCache"
                                                    ELSE "KmerIndex")]
    /\ call = [op |-> "none", pc |-> "idle", blocks |-> <<>>, kmer |-> 0]
    /\ ret = <<>>
    /\ NoAssembly

HandlesUnchanged == UNCHANGED <<assembly, alphabet, wordlen, int_size, has_cache, reads>>

\* An operation is called; nothing has happened yet.
StartOp(op, kmer) ==
    /\ call.pc \in {"idle", "returned", "raised"}
    /\ call' = [op |-> op, pc |-> "running", blocks |-> BlocksOf(op),
                kmer |-> IF op = "hits" THEN kmer ELSE 0]
    /\ ret' = <<>>
    /\ UNCHANGED <<store, log_table, kmers_table, cache_table, callers>>
    /\ HandlesUnchanged

\* with self.connection() as conn: the transaction begins.
EnterBlock ==
    LET p == ObjectOf(call.op)
    IN  /\ call.pc = "running"
        /\ callers[p].txn = "none"
        /\ callers' = [callers EXCEPT ![p] =
              [connection(callers[p], FALSE) EXCEPT !.txn = "open"]]
        /\ call' = [call EXCEPT !.pc = "in_block"]
        /\ UNCHANGED <<store, log_table, kmers_table, cache_table, ret>>
        /\ HandlesUnchanged

\* What a block that runs to its end leaves: the tables, the store, the
\* value the operation has to return and the blocks still to run.
BlockEffect(block, rest, kmer) ==
    LET seq == reads[1]
        base == [log |-> log_table, kmers |-> kmers_table,
                 cache |-> cache_table, store |-> store, ret |-> ret,
                 blocks |-> rest]
        rows == SelectKmers(cache_table, content_id(seq))
        found == SelectSeqid(log_table, content_id(seq))
        seqid == MaxSeqid(log_table) + 1
    IN  CASE block = "select_seqs" ->
                 [base EXCEPT !.ret = [i \in 1..Len(cache_table) |->
                                           cache_table[i].seq]]
          [] block = "select_kmers" ->
                 IF rows # <<>>
                 THEN [base EXCEPT !.ret = Eval(rows[1].kmers)]
                 ELSE [base EXCEPT !.blocks = <<"insert_repr">>]
          [] block = "insert_repr" ->
                 [base EXCEPT !.cache = Append(cache_table,
                                   [seq |-> content_id(seq),
                                    kmers |-> Repr(as_kmer_seq(seq, wordlen))]),
                              !.ret = as_kmer_seq(seq, wordlen)]
          [] block = "index" ->
                 IF found # <<>>
                 THEN [base EXCEPT !.ret = <<found[1].seqid>>]
                 ELSE [base EXCEPT
                          !.log = Append(log_table, [seq |-> content_id(seq),
                                                     seqid |-> seqid]),
                          !.kmers = kmers_table \o
                                    KmerRows(as_kmer_seq(seq, wordlen), seqid),
                          !.ret = <<seqid>>]
          [] block = "select_hits" -> [base EXCEPT !.ret = hits(kmer)]
          [] block = "create_index" -> [base EXCEPT !.store = "indexed"]
          [] block = "select_distinct" ->
                 [base EXCEPT !.ret = DistinctKmers(kmers_table, {})]

\* An exception leaves the block and the transaction stays open.
LeaveBlock_no_rollback(ok) ==
    LET p == ObjectOf(call.op)
        after == BlockEffect(Head(call.blocks), Tail(call.blocks), call.kmer)
    IN  /\ call.pc = "in_block"
        /\ IF ok
           THEN /\ log_table' = after.log /\ kmers_table' = after.kmers
                /\ cache_table' = after.cache /\ store' = after.store
                /\ ret' = after.ret
                /\ call' = [call EXCEPT !.blocks = after.blocks,
                               !.pc = IF after.blocks = <<>> THEN "returned"
                                                             ELSE "running"]
                /\ callers' = [callers EXCEPT ![p].txn = "none"]
           ELSE /\ call' = [call EXCEPT !.pc = "raised"]
                /\ ret' = <<>>
                /\ UNCHANGED <<log_table, kmers_table, cache_table, store,
                               callers>>
        /\ HandlesUnchanged

\* Leaving a with-block.  At its end the transaction is committed; the
\* operation goes on with its next block or returns.  When an exception
\* leaves the block the transaction is rolled back and the exception goes
\* on to the caller.  The connection is not closed on either path.
LeaveBlock(ok) ==
    LET p == ObjectOf(call.op)
        after == BlockEffect(Head(call.blocks), Tail(call.blocks), call.kmer)
    IN  /\ call.pc = "in_block"
        /\ callers' = [callers EXCEPT ![p].txn = "none"]
        /\ IF ok
           THEN /\ log_table' = after.log /\ kmers_table' = after.kmers
                /\ cache_table' = after.cache /\ store' = after.store
                /\ ret' = after.ret
                /\ call' = [call EXCEPT !.blocks = after.blocks,
                               !.pc = IF after.blocks = <<>> THEN "returned"
                                                             ELSE "running"]
           ELSE /\ call' = [call EXCEPT !.pc = "raised"]
                /\ ret' = <<>>
                /\ UNCHANGED <<log_table, kmers_table, cache_table, store>>
        /\ HandlesUnchanged

NextHandles ==
    \/ /\ call.pc \in {"idle", "returned", "raised"}
       /\ \E op \in Operations, kmer \in 0..(Pow(alphabet, wordlen) - 1) :
              StartOp(op, kmer)
    \/ EnterBlock
    \/ \E ok \in BOOLEAN : LeaveBlock(ok)

SpecHandles == InitHandles /\ [][NextHandles]_vars

OperationEnded == call.pc \in {"returned", "raised"}

Abs(x) == IF x < 0 THEN -x ELSE x

SeqIds == {1, 2}

\* At most one letter of one sequence is left unmatched by a transcript.
MaxIndels == 1

\* The transcripts of the overlap alignments of sequences of m and n
\* letters: they start at the start of one sequence (asserted by build)
\* and reach the end of one sequence.
Transcripts(m, n) ==
    {[S_idx |-> si, T_idx |-> ti, S_len |-> sl, T_len |-> tl,
      score |-> Min(sl, tl)] :
        <<si, ti, sl, tl>> \in
            {q \in (0..(m - 1)) \X (0..(n - 1)) \X (1..m) \X (1..n) :
                /\ q[1] * q[2] = 0
                /\ q[1] + q[3] <= m /\ q[2] + q[4] <= n
                /\ q[1] + q[3] = m \/ q[2] + q[4] = n
                /\ Abs(q[3] - q[4]) <= MaxIndels}}

None == [S_idx |-> -1]

InitBuild ==
    /\ alphabet = 1 /\ wordlen = 0 /\ int_size = 64
    /\ has_cache = FALSE /\ store = "none"
    /\ log_table = <<>> /\ kmers_table = <<>> /\ cache_table = <<>>
    /\ reads \in [SeqIds -> WordsBetween(1, 1, MaxSeqLen)]
    /\ callers = <<>>
    /\ call = [op |-> "build", pc |-> "pairs", visited |-> {}]
    /\ ret = <<>>
    /\ min_margin \in 0..(MaxSeqLen - 1)
    /\ vs = {} /\ es = <<>> /\ ws = <<>>
    /\ iG = EmptyGraph
    /\ pool = {} /\ segment = NoSegment /\ emitted = <<>>
    /\ DefaultShiftKwargs

BuildUnchanged ==
    UNCHANGED <<alphabet, wordlen, int_size, has_cache, store, log_table,
                kmers_table, cache_table, reads, callers, min_margin,
                pool, segment, emitted, shift_rolling_sum_width,
                min_shift_freq_coeff, max_shift_freq_coeff>>

\* The edge of an overlap the margins let through: ( ) when the transcript
\* starts at the start of both sequences and covers as many letters of
\* one as of the other.
EdgeOf(S_name, T_name, tx) ==
    IF tx.S_idx = 0 /\ tx.T_idx = 0
    THEN IF tx.S_len < tx.T_len THEN <<<<S_name, T_name>>>>
         ELSE IF tx.S_len > tx.T_len THEN <<<<T_name, S_name>>>>
         ELSE <<>>
    ELSE IF tx.T_idx = 0 THEN <<<<S_name, T_name>>>>
    ELSE <<<<T_name, S_name>>>>

lmargin(tx) == Abs(tx.S_idx - tx.T_idx)

rmargin(tx) == Abs(tx.S_idx + tx.S_len - (tx.T_idx + tx.T_len))

\* One round of the loop of build for the pair (S_id, T_id): both names
\* join the vertices; without seeds or without overlap nothing else
\* happens; an overlap with a margin below min_margin is ignored; any other
\* overlap adds its weight and, unless EdgeOf gives none, its edge.
BuildPair(S_id, T_id, overlap) ==
    LET kept == overlap # None /\ ~(lmargin(overlap) < min_margin
                                    \/ rmargin(overlap) < min_margin)
        edge == IF kept THEN EdgeOf(S_id, T_id, overlap) ELSE <<>>
    IN  /\ call.op = "build" /\ call.pc = "pairs"
        /\ S_id # T_id
        /\ <<S_id, T_id>> \notin call.visited
        /\ vs' = vs \cup {S_id, T_id}
        /\ es' = es \o edge
        /\ ws' = IF kept THEN Append(ws, overlap.score) ELSE ws
        /\ call' = [op |-> "build", pc |-> "pairs",
                    visited |-> call.visited \cup {<<S_id, T_id>>},
                    S_id |-> S_id, T_id |-> T_id, overlap |-> overlap,
                    edge |-> edge]
        /\ UNCHANGED <<ret, iG>>
        /\ BuildUnchanged

\* The orders list(vs) can have.
ListsOf(set) ==
    {l \in [1..Cardinality(set) -> set] :
        \A i, j \in 1..Cardinality(set) : i # j => l[i] # l[j]}

\* The end of build: the graph gets the vertices, the edges, and the
\* weights as the 'weight' attribute of the edges (igraph takes the value
\* of edge i from the list at i, starting over at the end of the list).
BuildGraph(names) ==
    /\ call.op = "build" /\ call.pc = "pairs"
    /\ call' = [call EXCEPT !.pc = "done"]
    /\ iG' = [vs |-> names, es |-> es,
              weight |-> [i \in 1..Len(es) |-> ws[((i - 1) % Len(ws)) + 1]]]
    /\ ret' = <<"OverlapGraph">>
    /\ UNCHANGED <<vs, es, ws>>
    /\ BuildUnchanged

NextBuild ==
    \/ /\ call.pc = "pairs"
       /\ \E S_id, T_id \in SeqIds :
            \E overlap \in {None} \cup
                    Transcripts(Len(reads[S_id]), Len(reads[T_id])) :
                BuildPair(S_id, T_id, overlap)
    \/ /\ call.pc = "pairs"
       /\ \E names \in ListsOf(vs) : BuildGraph(names)

SpecBuild == InitBuild /\ [][NextBuild]_vars

\* The last round of the loop added an edge.
EdgeAdded == call.op = "build" /\ call.pc = "pairs" /\ call.visited # {}
                 /\ call.edge # <<>>

shift(tx) == tx.S_idx - tx.T_idx

\* C13: the edge build adds for an overlap goes from S to T when the shift
\* S_idx - T_idx is positive, from T to S when it is negative, and from
\* the shorter sequence to the longer one when it is zero.
C13_EdgeFollowsDiagonal ==
    EdgeAdded =>
        LET S == call.S_id
            T == call.T_id
            m == Len(reads[S])
            n == Len(reads[T])
            d == shift(call.overlap)
            edge == call.edge[1]
        IN  /\ d > 0 => edge = <<S, T>>
            /\ d < 0 => edge = <<T, S>>
            /\ d = 0 => \/ m < n /\ edge = <<S, T>>
                        \/ n < m /\ edge = <<T, S>>

\* C14: build adds an edge for an overlap only if both |d| and |(m - n) - d|
\* are greater than min_margin, d = S_idx - T_idx being the diagonal and m,
\* n the lengths of the sequences.
C14_MarginsExceeded ==
    EdgeAdded =>
        LET m == Len(reads[call.S_id])
            n == Len(reads[call.T_id])
            d == shift(call.overlap)
        IN  /\ Abs(d) > min_margin
            /\ Abs((m - n) - d) > min_margin

(* --------------------- band area and overlap length --------------------- *)
\* The term of the closed form of the band area for the diagonal d.
BandTerm(m, n, d) == Min(m, n + d) - Max(0, d)

\* The closed form of the area of the band [d0, d1) for sequences of m and
\* n letters: the sum over d in [d0, d1) of min(m, n + d) - max(0, d).
RECURSIVE band_area(_, _, _, _)
band_area(m, n, d0, d1) ==
    IF d0 >= d1 THEN 0 ELSE BandTerm(m, n, d0) + band_area(m, n, d0 + 1, d1)

\* max(0, shift_mode) is left out.
overlap_length_no_max(S_len, T_len, shift_mode) ==
    IF shift_mode < Min(S_len, T_len)
    THEN Min(S_len, T_len + shift_mode) - shift_mode
    ELSE 0

\* overlap_by_seed_shift_distribution: the overlap length the mode of the
\* shifts implies.
overlap_length(S_len, T_len, shift_mode) ==
    IF shift_mode < Min(S_len, T_len)
    THEN Min(S_len, T_len + shift_mode) - Max(0, shift_mode)
    ELSE 0

\* range(-T_len, S_len): the shifts a seed of the two sequences can have.
shift_range(S_len, T_len) == (-T_len)..(S_len - 1)

\* How far beyond the corner diagonals -n and m the bands tried reach.
BandOvershoot == 2

InitBand ==
    /\ alphabet = 1 /\ wordlen = 0
    /\ NoStore
    /\ call = NoCall
    /\ ret = <<>>
    /\ NoAssembly

\* The closed form applied to one band.
CallBandArea(m, n, d0, d1) ==
    /\ call = NoCall
    /\ call' = [op |-> "band_area", m |-> m, n |-> n, d0 |-> d0, d1 |-> d1]
    /\ ret' = band_area(m, n, d0, d1)
    /\ UNCHANGED <<assembly, alphabet, wordlen, int_size, has_cache, store,
                   log_table, kmers_table, cache_table, reads, callers>>

\* The overlap length of one shift of the shift range.
CallOverlapLength(m, n, d) ==
    /\ call = NoCall
    /\ call' = [op |-> "overlap_length", m |-> m, n |-> n, d0 |-> d,
                d1 |-> d + 1]
    /\ ret' = overlap_length(m, n, d)
    /\ UNCHANGED <<assembly, alphabet, wordlen, int_size, has_cache, store,
                   log_table, kmers_table, cache_table, reads, callers>>

NextBand ==
    \/ /\ call = NoCall
       /\ \E m, n \in 1..MaxSeqLen :
            \E d0 \in (-n - BandOvershoot)..(m + BandOvershoot) :
              \E d1 \in d0..(m + BandOvershoot + 1) :
                 CallBandArea(m, n, d0, d1)
    \/ /\ call = NoCall
       /\ \E m, n \in 1..MaxSeqLen :
            \E d \in shift_range(m, n) : CallOverlapLength(m, n, d)

SpecBand == InitBand /\ [][NextBand]_vars

\* The lattice points (i, j) of the rectangle [0, m) x [0, n) on the
\* diagonals d0 <= i - j < d1.
LatticePoints(m, n, d0, d1) ==
    {q \in (0..(m - 1)) \X (0..(n - 1)) : d0 <= q[1] - q[2] /\ q[1] - q[2] < d1}

BandCalled == call.op \in {"band_area", "overlap_length"}

C15_WitnessBand ==
    /\ call.op = "band_area"
    /\ call.d0 < 0 /\ call.d1 > 1
    /\ -call.n <= call.d0 /\ call.d1 <= call.m + 1
    /\ ret >= 4

(* --------------------------- segment builder ---------------------------- *)
(* The segment builder of a query on two sequences S and T: the seeds are  *)
(* scored by their neighbourhood, filtered, and clustered greedily into    *)
(* segments.  A seed is a pair (i, j) of positions; a score is held as the *)
(* fraction num / den of the squared excess of matches over their          *)
(* expectation, in units of the variance, which orders scores as the       *)
(* negative log p-value of the normal approximation does.                  *)
MaxSeeds == 4    \* seeds of a query

\* The lengths of S and T.
S_len == MaxSeqLen + 1

T_len == MaxSeqLen - 1

K_scale == 1

Positions == (0..(S_len - 1)) \X (0..(T_len - 1))

\* The diagonal transform of a seed.
Diag(seed) == seed[1] - seed[2]

Anti(seed) == seed[1] + seed[2]

\* band_radius(K, g_max, sensitivity) for the g_max and sensitivity of the
\* query: it grows as the square root of K.
band_radius(K) == CHOOSE r \in 0..K : r * r >= K /\ \A q \in 0..(r - 1) : q * q < K

\* The radius of the neighbourhoods and of the segments.
Radius == band_radius(K_scale * wordlen)

\* 1 / q: the number of words of the word length.
WordCount == Pow(alphabet, wordlen)

\* score_band: 0 unless there are more matches than expected.
score_band(area, num_matches) ==
    LET excess == WordCount * num_matches - area
    IN  [num |-> IF excess > 0 THEN excess * excess ELSE 0, den |-> area]

ScoreLess(a, b) == a.num * b.den < b.num * a.den

\* estimate_p, in percent, clamped to [0, 100].
estimate_p(area, num_matches) == Min(100, (100 * num_matches) \div area)

\* The area of the band of the diagonals d with |d - c / k| <= r.
BandArea(c, k, r) ==
    Cardinality({q \in Positions : Abs(Diag(q) * k - c) <= r * k})

\* The neighbourhood of a seed among the seeds of the query.
Neighbours(seed, seed_set) ==
    {t \in seed_set : /\ Abs(Diag(seed) - Diag(t)) <= Radius
                   /\ Abs(Anti(seed) - Anti(t)) <= 2 * Radius * K_scale}

RawScore(seed, seed_set) == Cardinality(Neighbours(seed, seed_set))

SeedScore(seed, seed_set) ==
    score_band(BandArea(Diag(seed), 1, Radius), RawScore(seed, seed_set))

\* Filtering: the seeds whose local estimate reaches p_min and whose score
\* is above the threshold.
Surviving(seed_set, p_min) ==
    {seed \in seed_set :
        /\ estimate_p(BandArea(Diag(seed), 1, Radius),
                      RawScore(seed, seed_set)) >= p_min
        /\ SeedScore(seed, seed_set).num > 0}

\* The seeds a segment can start at: highest score first, then the lower
\* antidiagonal.
BestSeeds(seed_set) ==
    {seed \in pool :
        \A t \in pool :
            /\ ~ScoreLess(SeedScore(seed, seed_set), SeedScore(t, seed_set))
            /\ ScoreLess(SeedScore(t, seed_set), SeedScore(seed, seed_set))
                   \/ Anti(seed) <= Anti(t)}

\* The segment of one seed; the central diagonal is wsum / wtot.
SegmentAt(seed, seed_set) ==
    [joined |-> {seed},
     wsum |-> RawScore(seed, seed_set) * Diag(seed),
     wtot |-> RawScore(seed, seed_set),
     a0 |-> Anti(seed), a1 |-> Anti(seed)]

\* The seeds of the pool that can join the segment: inside its band, and
\* within w * K_scale of a boundary of its antidiagonal range.
Candidates ==
    {seed \in pool \ segment.joined :
        /\ Abs(Diag(seed) * segment.wtot - segment.wsum)
               <= Radius * segment.wtot
        /\ \/ Abs(Anti(seed) - segment.a0) <= wordlen * K_scale
           \/ Abs(Anti(seed) - segment.a1) <= wordlen * K_scale}

InitSegments ==
    /\ alphabet = ReadAlphabet
    /\ wordlen = MaxWordLen
    /\ NoStore
    /\ call = NoCall
    /\ ret = <<>>
    /\ NoAssembly

SegmentsUnchanged ==
    UNCHANGED <<alphabet, wordlen, int_size, has_cache, store, log_table,
                kmers_table, cache_table, reads, callers, min_margin, vs, es,
                ws, iG, shift_rolling_sum_width, min_shift_freq_coeff,
                max_shift_freq_coeff>>

\* A query: the seeds are transformed, scored and filtered.
SimilarSegments(seed_set, p_min) ==
    /\ call = NoCall
    /\ call' = [op |-> "similar_segments", seeds |-> seed_set, p_min |-> p_min,
                pc |-> "clustering"]
    /\ pool' = Surviving(seed_set, p_min)
    /\ segment' = NoSegment
    /\ emitted' = <<>>
    /\ ret' = <<>>
    /\ SegmentsUnchanged

\* A round of the clustering starts at the best seed of the pool.
StartSegment(seed) ==
    /\ call.op = "similar_segments" /\ call.pc = "clustering"
    /\ segment = NoSegment
    /\ seed \in BestSeeds(call.seeds)
    /\ segment' = SegmentAt(seed, call.seeds)
    /\ UNCHANGED <<pool, emitted, call, ret>>
    /\ SegmentsUnchanged

\* A seed joins the segment: the central diagonal becomes the weighted
\* centroid of the joined seeds and the antidiagonal range covers them.
Join(seed) ==
    /\ call.op = "similar_segments" /\ call.pc = "clustering"
    /\ segment # NoSegment
    /\ seed \in Candidates
    /\ segment' =
          [joined |-> segment.joined \cup {seed},
           wsum |-> segment.wsum + RawScore(seed, call.seeds) * Diag(seed),
           wtot |-> segment.wtot + RawScore(seed, call.seeds),
           a0 |-> Min(segment.a0, Anti(seed)),
           a1 |-> Max(segment.a1, Anti(seed))]
    /\ UNCHANGED <<pool, emitted, call, ret>>
    /\ SegmentsUnchanged

\* The segment as it is emitted.
Emitted(seg) ==
    [band |-> [wsum |-> seg.wsum, wtot |-> seg.wtot, radius |-> Radius],
     a_range |-> <<seg.a0, seg.a1>>,
     seed_count |-> Cardinality(seg.joined),
     score |-> score_band(BandArea(seg.wsum, seg.wtot, Radius),
                          Cardinality(seg.joined)),
     p_hat |-> estimate_p(BandArea(seg.wsum, seg.wtot, Radius),
                          Cardinality(seg.joined)),
     seeds |-> seg.joined]

\* The joined seeds stay in the pool.
Emit_keeps_pool ==
    /\ call.op = "similar_segments" /\ call.pc = "clustering"
    /\ segment # NoSegment
    /\ Candidates = {}
    /\ emitted' = Append(emitted, Emitted(segment))
    /\ pool' = pool
    /\ segment' = NoSegment
    /\ UNCHANGED <<call, ret>>
    /\ SegmentsUnchanged

\* No seed can join any more: the segment is emitted with its band, range,
\* estimate and score recomputed, and its seeds leave the pool.
Emit ==
    /\ call.op = "similar_segments" /\ call.pc = "clustering"
    /\ segment # NoSegment
    /\ Candidates = {}
    /\ emitted' = Append(emitted, Emitted(segment))
    /\ pool' = pool \ segment.joined
    /\ segment' = NoSegment
    /\ UNCHANGED <<call, ret>>
    /\ SegmentsUnchanged

\* ReturnSegments that waits for a segment to have been emitted.
ReturnSegments_needs_segment ==
    /\ call.op = "similar_segments" /\ call.pc = "clustering"
    /\ segment = NoSegment
    /\ pool = {}
    /\ emitted # <<>>
    /\ call' = [call EXCEPT !.pc = "done"]
    /\ ret' = emitted
    /\ UNCHANGED <<pool, segment, emitted>>
    /\ SegmentsUnchanged

\* No seed is left above the threshold: the query is over.
ReturnSegments ==
    /\ call.op = "similar_segments" /\ call.pc = "clustering"
    /\ segment = NoSegment
    /\ pool = {}
    /\ call' = [call EXCEPT !.pc = "done"]
    /\ ret' = emitted
    /\ UNCHANGED <<pool, segment, emitted>>
    /\ SegmentsUnchanged

SeedSets == {seed_set \in SUBSET Positions : Cardinality(seed_set) <= MaxSeeds}

NextSegments ==
    \/ /\ call = NoCall
       /\ \E seed_set \in SeedSets, p_min \in {0, 50} :
              SimilarSegments(seed_set, p_min)
    \/ \E seed \in pool : StartSegment(seed)
    \/ \E seed \in pool : Join(seed)
    \/ Emit
    \/ ReturnSegments

SpecSegments == InitSegments /\ [][NextSegments]_vars

\* C16: the seed sets of the segments emitted in one query are pairwise
\* disjoint, and no seed of an emitted segment is left in the pool.
C16_SeedSetsDisjoint ==
    /\ \A i, j \in 1..Len(emitted) :
           i # j => emitted[i].seeds \cap emitted[j].seeds = {}
    /\ \A i \in 1..Len(emitted) : emitted[i].seeds \cap pool = {}

\* Two segments have been emitted, the second of several seeds.
C16_Witness ==
    /\ Len(emitted) >= 2
    /\ Cardinality(emitted[2].seeds) >= 2

SeedsInside(e) ==
    {seed \in Surviving(call.seeds, call.p_min) :
        /\ Abs(Diag(seed) * e.band.wtot - e.band.wsum)
               <= e.band.radius * e.band.wtot
        /\ e.a_range[1] <= Anti(seed) /\ Anti(seed) <= e.a_range[2]}

MaxWeight == 1   \* greatest edge weight

\* Vertex names: the names of the sequences (non-empty strings in build).
Names == {1, 2, 3, 4}

\* The graphs have fewer edges than vertices.
MaxEdges == Cardinality(Names) - 1

\* longest_paths[v] = (0, None): the path ending at v starts at v.
NoFrom == 0

Vertices(G) == {G.vs[i] : i \in 1..Len(G.vs)}

Edges(G) == {G.es[i] : i \in 1..Len(G.es)}

vid(G, name) == CHOOSE i \in 1..Len(G.vs) : G.vs[i] = name

\* igraph.Graph.get_eid: the id of the edge from u to v.
get_eid(G, u, v) ==
    CHOOSE i \in 1..Len(G.es) :
        G.es[i] = <<u, v>> /\ \A j \in 1..(i - 1) : G.es[j] # <<u, v>>

\* igraph.Graph.predecessors, as names.
predecessors(G, v) == {u \in Vertices(G) : <<u, v>> \in Edges(G)}

\* igraph.Graph.topological_sorting: vertices whose predecessors are all
\* sorted are appended, those on or behind a cycle are never reached.
\* (The result of longest_path does not depend on which topological order
\* is returned.)
RECURSIVE topological_sorting(_, _)
topological_sorting(G, sorting) ==
    LET sorted == {sorting[i] : i \in 1..Len(sorting)}
        ready == {v \in Vertices(G) \ sorted : predecessors(G, v) \subseteq sorted}
    IN  IF ready = {} THEN sorting
        ELSE LET v == CHOOSE x \in ready :
                          \A y \in ready : vid(G, x) <= vid(G, y)
             IN  topological_sorting(G, Append(sorting, v))

is_dag(G) == Len(topological_sorting(G, <<>>)) = Len(G.vs)

\* weight_of_edge that counts every edge as 1.
weight_of_edge_equal(G, u, v, equal_weights) == 1

weight_of_edge(G, u, v, equal_weights) ==
    IF equal_weights THEN 1 ELSE G.weight[get_eid(G, u, v)]

\* The loop of longest_path over the sorting from position k on:
\* longest_paths maps a vertex to (weight, from) of a heaviest path ending
\* at it. sorted(cands, reverse=True) is stable, so of the heaviest
\* candidates the first of the incoming list (lowest vertex id) is taken.
RECURSIVE longest_paths(_, _, _, _, _, _)
longest_paths(G, sorting, k, exclude, equal_weights, acc) ==
    IF k > Len(sorting) THEN acc
    ELSE LET v == sorting[k]
             incoming == predecessors(G, v) \ exclude
             w(x) == acc[x].weight + weight_of_edge(G, x, v, equal_weights)
             best == CHOOSE u \in incoming :
                         \A x \in incoming :
                             \/ w(x) < w(u)
                             \/ w(x) = w(u) /\ vid(G, u) <= vid(G, x)
             entry == IF incoming = {}
                      THEN [weight |-> 0, from |-> NoFrom]
                      ELSE [weight |-> w(best), from |-> best]
         IN  longest_paths(G, sorting, k + 1, exclude, equal_weights,
                           acc @@ (v :> entry))

\* The trace back from the terminal vertex (on an acyclic graph the
\* dictionary is emptied by the pop of a vertex without predecessor at the
\* earliest).
RECURSIVE TraceBack(_, _, _)
TraceBack(lp, end, path) ==
    IF end = NoFrom THEN path
    ELSE TraceBack(lp, lp[end].from, <<end>> \o path)

SelectSeq2(seq, keep) ==
    LET F[i \in 0..Len(seq)] ==
            IF i = 0 THEN <<>>
            ELSE IF seq[i] \in keep THEN Append(F[i - 1], seq[i])
                 ELSE F[i - 1]
    IN  F[Len(seq)]

\* The paths longest_path can return. The terminal vertex is the first of
\* the heaviest items of the dictionary; the order of the items of a
\* dictionary is arbitrary, so it is any vertex of greatest weight.
longest_path(G, exclude, equal_weights) ==
    LET sorting == SelectSeq2(topological_sorting(G, <<>>),
                              Vertices(G) \ exclude)
        lp == longest_paths(G, sorting, 1, exclude, equal_weights, <<>>)
        ends == {v \in DOMAIN lp :
                    \A u \in DOMAIN lp : lp[u].weight <= lp[v].weight}
        path(end) == TraceBack(lp, end, <<>>)
    IN  IF DOMAIN lp = {} THEN {<<>>}
        ELSE {IF Len(path(end)) > 1 THEN path(end) ELSE <<>> : end \in ends}

RangeOf(seq) == {seq[i] : i \in 1..Len(seq)}

\* The lists of paths all_longest_paths can return: longest_path is called
\* with the exclude list only (equal_weights is not handed on) until it
\* returns no path.
RECURSIVE all_longest_paths(_, _, _, _)
all_longest_paths(G, equal_weights, exclude, paths) ==
    UNION {IF path = <<>> THEN {paths}
           ELSE all_longest_paths(G, equal_weights,
                                  exclude \cup RangeOf(path),
                                  Append(paths, path))
           : path \in longest_path(G, exclude, FALSE)}

\* The edge ids layout collects along one path, from position idx on.
RECURSIVE path_eids(_, _, _)
path_eids(G, path, idx) ==
    IF idx > Len(path) THEN <<>>
    ELSE <<get_eid(G, path[idx - 1], path[idx])>> \o path_eids(G, path, idx + 1)

\* The edge ids layout collects along the paths.
RECURSIVE eids_of(_, _)
eids_of(G, paths) ==
    IF paths = <<>> THEN <<>>
    ELSE path_eids(G, Head(paths), 2) \o eids_of(G, Tail(paths))

\* subgraph_edges that keeps every edge between the vertices of the kept
\* edges.
subgraph_edges_induced(G, eids) ==
    LET ends == UNION {RangeOf(G.es[e]) : e \in RangeOf(eids)}
        kept == {e \in 1..Len(G.es) : RangeOf(G.es[e]) \subseteq ends}
        ids == SelectSeq2([i \in 1..Len(G.es) |-> i], kept)
    IN  [vs |-> SelectSeq2(G.vs, ends),
         es |-> [i \in 1..Len(ids) |-> G.es[ids[i]]],
         weight |-> [i \in 1..Len(ids) |-> G.weight[ids[i]]]]

\* igraph.Graph.subgraph_edges: a new graph of the given edges and the
\* vertices they touch, with their attributes.
subgraph_edges(G, eids) ==
    LET ends == UNION {RangeOf(G.es[e]) : e \in RangeOf(eids)}
        ids == SelectSeq2([i \in 1..Len(G.es) |-> i], RangeOf(eids))
    IN  [vs |-> SelectSeq2(G.vs, ends),
         es |-> [i \in 1..Len(ids) |-> G.es[ids[i]]],
         weight |-> [i \in 1..Len(ids) |-> G.weight[ids[i]]]]

\* The edges of a set in a fixed order.
RECURSIVE EdgeList(_)
EdgeList(E) ==
    IF E = {} THEN <<>>
    ELSE LET e == CHOOSE x \in E :
                      \A y \in E : \/ x[1] < y[1]
                                   \/ x[1] = y[1] /\ x[2] <= y[2]
         IN  <<e>> \o EdgeList(E \ {e})

\* The names in a fixed order.
RECURSIVE NameList(_)
NameList(V) ==
    IF V = {} THEN <<>>
    ELSE LET v == CHOOSE x \in V : \A y \in V : x <= y
         IN  <<v>> \o NameList(V \ {v})

\* Overlap graphs: no loops, one edge per ordered pair of sequences at
\* most, weights from 0 (the score of an empty overlap) on.
Graphs ==
    {[vs |-> NameList(Names), es |-> EdgeList(E), weight |-> ws_]
        : <<E, ws_>> \in
            UNION {{<<E, ws_>> : ws_ \in [1..Cardinality(E) -> 0..MaxWeight]}
                   : E \in {X \in SUBSET {e \in Names \X Names : e[1] # e[2]}
                               : Cardinality(X) <= MaxEdges}}}

InitGraph ==
    /\ alphabet = 1 /\ wordlen = 0
    /\ NoStore
    /\ call = NoCall
    /\ ret = <<>>
    /\ min_margin = 0 /\ vs = {} /\ es = <<>> /\ ws = <<>>
    /\ pool = {} /\ segment = NoSegment /\ emitted = <<>>
    /\ DefaultShiftKwargs
    /\ iG \in Graphs

GraphUnchanged ==
    UNCHANGED <<alphabet, wordlen, int_size, has_cache, store, log_table,
                kmers_table, cache_table, reads, callers, min_margin, vs, es,
                ws, pool, segment, emitted,
                shift_rolling_sum_width, min_shift_freq_coeff,
                max_shift_freq_coeff>>

\* OverlapGraph.longest_path on an acyclic graph.
LongestPath(exclude, equal_weights) ==
    /\ call = NoCall
    /\ is_dag(iG)
    /\ call' = [op |-> "longest_path", exclude |-> exclude,
                equal_weights |-> equal_weights]
    /\ ret' \in longest_path(iG, exclude, equal_weights)
    /\ UNCHANGED iG
    /\ GraphUnchanged

\* OverlapGraph.layout: the assertion fails on a graph with a cycle;
\* otherwise a new graph of the edges along the paths is returned.
Layout(full, equal_weights) ==
    /\ call = NoCall
    /\ IF ~is_dag(iG)
       THEN /\ call' = [op |-> "layout", full |-> full,
                        equal_weights |-> equal_weights, paths |-> <<>>,
                        G |-> iG]
            /\ ret' = [raised |-> "AssertionError"]
       ELSE \E paths \in IF full
                         THEN all_longest_paths(iG, equal_weights, {}, <<>>)
                         ELSE {<<path>> :
                                 path \in longest_path(iG, {}, equal_weights)} :
              /\ call' = [op |-> "layout", full |-> full,
                          equal_weights |-> equal_weights, paths |-> paths,
                          G |-> iG]
              /\ ret' = [iG |-> subgraph_edges(iG, eids_of(iG, paths))]
    /\ UNCHANGED iG
    /\ GraphUnchanged

NextGraph ==
    \/ /\ call = NoCall /\ is_dag(iG)
       /\ \E exclude \in SUBSET Names, equal_weights \in BOOLEAN :
            LongestPath(exclude, equal_weights)
    \/ /\ call = NoCall
       /\ \E full, equal_weights \in BOOLEAN : Layout(full, equal_weights)

SpecGraph == InitGraph /\ [][NextGraph]_vars

\* The last call was longest_path and has returned.
LongestPathReturned == call.op = "longest_path"

\* The directed paths of the graph with at least two vertices that avoid
\* the excluded vertices.
RECURSIVE PathsOfLength(_, _, _)
PathsOfLength(G, exclude, n) ==
    IF n = 1 THEN {<<v>> : v \in Vertices(G) \ exclude}
    ELSE {Append(p, e[2]) :
              <<p, e>> \in {x \in PathsOfLength(G, exclude, n - 1) \X Edges(G) :
                               x[1][n - 1] = x[2][1] /\ x[2][2] \notin exclude}}

DirectedPaths(G, exclude) ==
    UNION {PathsOfLength(G, exclude, n) : n \in 2..Len(G.vs)}

RECURSIVE PathWeight(_, _, _)
PathWeight(G, p, equal_weights) ==
    IF Len(p) < 2 THEN 0
    ELSE (IF equal_weights THEN 1
          ELSE G.weight[CHOOSE i \in 1..Len(G.es) : G.es[i] = <<p[1], p[2]>>])
         + PathWeight(G, Tail(p), equal_weights)

LayoutReturned == call.op = "layout"

\* The pairs of consecutive vertices of the paths.
ConsecutivePairs(paths) ==
    UNION {{<<paths[p][i], paths[p][i + 1]>> : i \in 1..(Len(paths[p]) - 1)}
           : p \in 1..Len(paths)}

InDegree(G, v) == Cardinality({i \in 1..Len(G.es) : G.es[i][2] = v})

OutDegree(G, v) == Cardinality({i \in 1..Len(G.es) : G.es[i][1] = v})

\* C20: layout raises an AssertionError on a graph with a cycle; on an
\* acyclic graph it returns a new graph whose edges are exactly the edges
\* of the graph between consecutive vertices of the reported paths, with
\* their weights, so that no vertex of the result has more than one
\* incoming or more than one outgoing edge; the graph itself is as it was
\* before the call.
C20_LayoutIsLinearSubgraph ==
    LayoutReturned =>
        /\ iG = call.G
        /\ IF ~is_dag(call.G) THEN DOMAIN ret = {"raised"}
           ELSE /\ DOMAIN ret = {"iG"}
                /\ Edges(ret.iG) = ConsecutivePairs(call.paths)
                /\ Len(ret.iG.es) = Cardinality(ConsecutivePairs(call.paths))
                /\ Vertices(ret.iG) \subseteq Vertices(call.G)
                /\ \A i \in 1..Len(ret.iG.es) :
                       \E j \in 1..Len(call.G.es) :
                           /\ call.G.es[j] = ret.iG.es[i]
                           /\ call.G.weight[j] = ret.iG.weight[i]
                /\ \A v \in Vertices(ret.iG) :
                       InDegree(ret.iG, v) <= 1 /\ OutDegree(ret.iG, v) <= 1

\* A full layout of two paths that leaves out an edge of the graph between
\* the two paths.
C20_Witness ==
    /\ LayoutReturned
    /\ call.full
    /\ Len(call.paths) = 2
    /\ DOMAIN ret = {"iG"}
    /\ \E e \in Edges(iG) \ Edges(ret.iG) :
           {e[1], e[2]} \subseteq Vertices(ret.iG)

\* A layout was asked of a graph with a cycle.
C20_WitnessCycle == LayoutReturned /\ ~is_dag(iG) /\ DOMAIN ret = {"raised"}

\* ---------------------------------------------------------------------
\* OverlapGraph.break_cycles, followed by layout.
\* ---------------------------------------------------------------------

\* igraph.Graph.delete_edges: the graph without the edges of the given
\* ids; the vertices stay.
delete_edges(G, rm) ==
    LET ids == SelectSeq2([i \in 1..Len(G.es) |-> i], (1..Len(G.es)) \ rm)
    IN  [vs |-> G.vs,
         es |-> [i \in 1..Len(ids) |-> G.es[ids[i]]],
         weight |-> [i \in 1..Len(ids) |-> G.weight[ids[i]]]]

RECURSIVE SumWeights(_, _)
SumWeights(G, ids) ==
    IF ids = {} THEN 0
    ELSE LET i == CHOOSE x \in ids : TRUE
         IN  G.weight[i] + SumWeights(G, ids \ {i})

\* The sets of edge ids whose removal leaves no cycle.
FeedbackArcSets(G) ==
    {rm \in SUBSET (1..Len(G.es)) : is_dag(delete_edges(G, rm))}

\* feedback_arc_set that finds nothing to remove.
feedback_arc_set_none(G, method) == {{}}

\* igraph.Graph.feedback_arc_set, the sets it can return: with 'ip' a
\* feedback arc set of least total weight; with 'eades' the edges that
\* point backwards in the vertex order the heuristic arrives at (any
\* order here), a feedback arc set that need not be the lightest.
feedback_arc_set(G, method) ==
    IF method = "ip"
    THEN {rm \in FeedbackArcSets(G) :
             \A other \in FeedbackArcSets(G) :
                 SumWeights(G, rm) <= SumWeights(G, other)}
    ELSE {{i \in 1..Len(G.es) :
              vid([G EXCEPT !.vs = order], G.es[i][1])
                  > vid([G EXCEPT !.vs = order], G.es[i][2])}
          : order \in ListsOf(Vertices(G))}

\* OverlapGraph.break_cycles: nothing on an acyclic graph, else the edges
\* of a feedback arc set are deleted.
BreakCycles(method) ==
    /\ call = NoCall
    /\ IF is_dag(iG)
       THEN /\ iG' = iG
            /\ call' = [op |-> "break_cycles", method |-> method, G |-> iG,
                        rm |-> {}]
       ELSE \E rm \in feedback_arc_set(iG, method) :
              /\ iG' = delete_edges(iG, rm)
              /\ call' = [op |-> "break_cycles", method |-> method, G |-> iG,
                          rm |-> rm]
    /\ ret' = <<>>
    /\ GraphUnchanged

\* OverlapGraph.layout called on the graph break_cycles has left.
LayoutAfterBreakCycles(full, equal_weights) ==
    /\ call.op = "break_cycles"
    /\ IF ~is_dag(iG)
       THEN /\ call' = [op |-> "layout", full |-> full,
                        equal_weights |-> equal_weights, paths |-> <<>>,
                        G |-> iG, removed |-> call.rm]
            /\ ret' = [raised |-> "AssertionError"]
       ELSE \E paths \in IF full
                         THEN all_longest_paths(iG, equal_weights, {}, <<>>)
                         ELSE {<<path>> :
                                 path \in longest_path(iG, {}, equal_weights)} :
              /\ call' = [op |-> "layout", full |-> full,
                          equal_weights |-> equal_weights, paths |-> paths,
                          G |-> iG, removed |-> call.rm]
              /\ ret' = [iG |-> subgraph_edges(iG, eids_of(iG, paths))]
    /\ UNCHANGED iG
    /\ GraphUnchanged

NextCycles ==
    \/ /\ call = NoCall
       /\ \E method \in {"ip", "eades"} : BreakCycles(method)
    \/ /\ call.op = "break_cycles"
       /\ \E full, equal_weights \in BOOLEAN :
            LayoutAfterBreakCycles(full, equal_weights)

SpecCycles == InitGraph /\ [][NextCycles]_vars

\* C21: after break_cycles the graph is acyclic, and a layout called then
\* does not raise the AssertionError; on an acyclic graph break_cycles
\* leaves the graph as it is; the edges of the graph after break_cycles
\* are edges it had before, with their weights, and the vertices are the
\* same.
C21_BreakCyclesMakesAcyclic ==
    /\ call.op = "break_cycles" =>
           /\ is_dag(iG)
           /\ is_dag(call.G) => iG = call.G
           /\ iG.vs = call.G.vs
           /\ \A i \in 1..Len(iG.es) :
                  \E j \in 1..Len(call.G.es) :
                      call.G.es[j] = iG.es[i] /\ call.G.weight[j] = iG.weight[i]
           /\ Len(iG.es) <= Len(call.G.es)
    /\ call.op = "layout" => DOMAIN ret = {"iG"}

\* break_cycles has removed an edge of a cycle and the layout that
\* followed has returned a path.
C21_Witness ==
    /\ call.op = "layout"
    /\ DOMAIN ret = {"iG"}
    /\ Len(ret.iG.es) >= 2
    /\ call.removed # {}

\* The vertices of the first k paths.
UsedBy(paths, k) == UNION {RangeOf(paths[i]) : i \in 1..k}

\* C22: a full layout with equal_weights reports only paths that are
\* longest by their number of edges among the directed paths over the
\* vertices the paths before have not used.
C22_FullLayoutCountsEdges ==
    (LayoutReturned /\ call.full /\ call.equal_weights /\ is_dag(call.G)) =>
        \A k \in 1..Len(call.paths) :
            \A p \in DirectedPaths(call.G, UsedBy(call.paths, k - 1)) :
                Len(p) <= Len(call.paths[k])

\* The segment builder with every step of a started query eventually
\* taken (the clustering is CPU-bound and does not suspend).
ClusteringStep ==
    \/ \E seed \in pool : StartSegment(seed)
    \/ \E seed \in pool : Join(seed)
    \/ Emit
    \/ ReturnSegments

\* The queries of the smaller seed sets.
NextSegmentsLive ==
    \/ /\ call = NoCall
       /\ \E seed_set \in {x \in SeedSets : Cardinality(x) < MaxSeeds - 1},
             p_min \in {0, 50} :
              SimilarSegments(seed_set, p_min)
    \/ \E seed \in pool : StartSegment(seed)
    \/ \E seed \in pool : Join(seed)
    \/ Emit
    \/ ReturnSegments

SpecSegmentsLive ==
    InitSegments /\ [][NextSegmentsLive]_vars /\ WF_vars(ClusteringStep)

QueryStarted == call.op = "similar_segments"

QueryReturned == call.op = "similar_segments" /\ call.pc = "done"

\* C23: every query of the segment builder returns; every emission of a
\* segment takes seeds out of the pool, the starting seed among them, and
\* puts none in; the query returns only when no seed is left in the pool
\* (the pool holds the seeds above the threshold); on zero seeds the
\* result is empty.
C23_ClusteringTerminates ==
    /\ QueryStarted ~> QueryReturned
    /\ [][emitted' # emitted =>
             /\ pool' \subseteq pool /\ pool' # pool
             /\ segment.joined \cap pool' = {}
             /\ segment.joined # {}]_vars
    /\ [](QueryReturned => pool = {})
    /\ []((QueryReturned /\ call.seeds = {}) => ret = <<>>)

\* A query has returned after two rounds.
C23_Witness == QueryReturned /\ Len(ret) >= 2

\* A query on zero seeds has returned.
C23_WitnessNoSeeds == QueryReturned /\ call.seeds = {}

\* ---------------------------------------------------------------------
\* OverlapGraph.all_longest_paths, one round of its loop at a time.
\* ---------------------------------------------------------------------

\* The call of all_longest_paths on an acyclic graph: no path yet, nothing
\* excluded.
AllLongestPaths ==
    /\ call = NoCall
    /\ is_dag(iG)
    /\ call' = [op |-> "all_longest_paths", pc |-> "loop", exclude |-> {},
                paths |-> <<>>, iterations |-> 0]
    /\ UNCHANGED <<iG, ret>>
    /\ GraphUnchanged

\* A round of the loop that keeps the exclude list as it is.
LoopRound_no_exclude(path) ==
    /\ call.op = "all_longest_paths" /\ call.pc = "loop"
    /\ path \in longest_path(iG, call.exclude, FALSE)
    /\ IF path = <<>>
       THEN /\ call' = [call EXCEPT !.pc = "done",
                                    !.iterations = call.iterations + 1]
            /\ ret' = call.paths
       ELSE /\ call' = [call EXCEPT !.paths = Append(call.paths, path),
                                    !.iterations = call.iterations + 1]
            /\ ret' = ret
    /\ UNCHANGED iG
    /\ GraphUnchanged

\* One round of the loop: longest_path with the exclude list; without a
\* path the loop is left and the paths are returned, else the path is
\* added to the paths and its vertices to the exclude list.
LoopRound(path) ==
    /\ call.op = "all_longest_paths" /\ call.pc = "loop"
    /\ path \in longest_path(iG, call.exclude, FALSE)
    /\ IF path = <<>>
       THEN /\ call' = [call EXCEPT !.pc = "done",
                                    !.iterations = call.iterations + 1]
            /\ ret' = call.paths
       ELSE /\ call' = [call EXCEPT !.paths = Append(call.paths, path),
                                    !.exclude = call.exclude \cup RangeOf(path),
                                    !.iterations = call.iterations + 1]
            /\ ret' = ret
    /\ UNCHANGED iG
    /\ GraphUnchanged

NextAllPaths ==
    \/ AllLongestPaths
    \/ /\ call.op = "all_longest_paths"
       /\ \E path \in DirectedPaths(iG, {}) \cup {<<>>} : LoopRound(path)

SpecAllPaths == InitGraph /\ [][NextAllPaths]_vars

AllPathsRunning == call.op = "all_longest_paths"

AllPathsReturned == call.op = "all_longest_paths" /\ call.pc = "done"

\* The paths are pairwise vertex-disjoint, have two vertices or more each,
\* and the first is a result of longest_path with nothing excluded.
DisjointPaths(paths) ==
    /\ \A i, j \in 1..Len(paths) :
           i # j => RangeOf(paths[i]) \cap RangeOf(paths[j]) = {}
    /\ \A i \in 1..Len(paths) : Len(paths[i]) >= 2
    /\ paths # <<>> => paths[1] \in longest_path(iG, {}, FALSE)

\* C24: on an acyclic graph the loop of all_longest_paths makes |V|/2
\* rounds at most, and the paths it returns are pairwise vertex-disjoint,
\* of two vertices or more, the first a result of longest_path.
C24_HalfTheVerticesRounds ==
    AllPathsRunning =>
        /\ 2 * call.iterations <= Len(iG.vs)
        /\ AllPathsReturned => DisjointPaths(ret)

\* C24, amended: the loop makes one round for each path and a last one
\* that finds none, |V|/2 + 1 rounds at most; the paths it returns are
\* |V|/2 at most, pairwise vertex-disjoint, of two vertices or more, the
\* first a result of longest_path.
C24_HalfTheVerticesPaths ==
    AllPathsRunning =>
        /\ 2 * Len(call.paths) <= Len(iG.vs)
        /\ call.iterations <= Len(call.paths) + 1
        /\ AllPathsReturned =>
               /\ call.iterations = Len(ret) + 1
               /\ DisjointPaths(ret)

\* Two paths were returned, after three rounds.
C24_Witness == AllPathsReturned /\ Len(ret) = 2 /\ call.iterations = 3

\* ---------------------------------------------------------------------
\* OverlapBuilder._rolling_sum and overlap_by_seed_shift_distribution
\* (align/assembly.py). S is reads[1], T is reads[2]; a seed is a segment
\* with a transcript [S_idx, T_idx, opseq] of matches.
\* ---------------------------------------------------------------------

MaxWidth == 4        \* shift_rolling_sum_width is 1..MaxWidth

MaxShiftSeeds == 2   \* seeds of a pair of sequences

\* The values of min_shift_freq_coeff and max_shift_freq_coeff tried.
ShiftCoeffs == {1, 2, 3}

\* 'M' * n
Matches(n) == [i \in 1..n |-> "M"]

\* _rolling_sum: the values the generator yields (position idx here is
\* index idx - 1 of the code).
_rolling_sum(data, width) ==
    LET cur[idx \in 0..Len(data)] ==
            IF idx = 0 THEN 0
            ELSE cur[idx - 1]
                 - (IF idx - 1 >= width THEN data[idx - width] ELSE 0)
                 + data[idx]
    IN  IF Len(data) < width THEN <<>>
        ELSE [idx \in 1..Len(data) |-> cur[idx]]

RECURSIVE SumSeq(_)
SumSeq(seq) == IF seq = <<>> THEN 0 ELSE Head(seq) + SumSeq(Tail(seq))

\* shift_coverage, as the list of its values in the order of the shifts.
shift_coverage(seed_list, m, n) ==
    [k \in 1..(m + n) |->
        SumSeq([i \in 1..Len(seed_list) |->
                   IF seed_list[i].S_idx - seed_list[i].T_idx = k - 1 - n
                   THEN Len(seed_list[i].opseq) ELSE 0])]

\* max(shift_distrib)
MaxOf(seq) == CHOOSE x \in {seq[i] : i \in 1..Len(seq)} :
                  \A i \in 1..Len(seq) : seq[i] <= x

\* shift_distrib.index(x)
IndexOf(seq, x) == CHOOSE i \in 1..Len(seq) :
                       seq[i] = x /\ \A j \in 1..(i - 1) : seq[j] # x

\* [seed for seed in seeds if ...]
RECURSIVE Filter(_, _, _)
Filter(seed_list, shift_mode, width) ==
    IF seed_list = <<>> THEN <<>>
    ELSE (IF Abs(Head(seed_list).S_idx - Head(seed_list).T_idx - shift_mode)
                 < width
          THEN <<Head(seed_list)>> ELSE <<>>)
         \o Filter(Tail(seed_list), shift_mode, width)

\* overlap_by_seed_shift_distribution. The mean is the sum over the length
\* of the distribution, so the comparisons with the peak are made on the
\* products; on an empty distribution the division raises. The key of the
\* last sorted() is the same for every seed, the list keeps its order.
overlap_by_seed_shift_distribution(seed_list, m, n) ==
    LET shift_distrib == _rolling_sum(shift_coverage(seed_list, m, n),
                                      shift_rolling_sum_width)
        total == SumSeq(shift_distrib)
        count == Len(shift_distrib)
        max_shift_frequency == MaxOf(shift_distrib)
        shift_mode == IndexOf(shift_distrib, max_shift_frequency) - 1 - n
        length == overlap_length(m, n, shift_mode)
    IN  IF count = 0 THEN [raised |-> "ZeroDivisionError"]
        ELSE IF max_shift_frequency * count <= min_shift_freq_coeff * total
        THEN [kind |-> "None"]
        ELSE IF max_shift_frequency * count >= max_shift_freq_coeff * total
        THEN [kind |-> "Segment",
              tx |-> IF shift_mode >= 0
                     THEN [S_idx |-> shift_mode, T_idx |-> 0,
                           score |-> length, opseq |-> Matches(length)]
                     ELSE [S_idx |-> 0, T_idx |-> -shift_mode,
                           score |-> length, opseq |-> Matches(length)]]
        ELSE [kind |-> "list",
              seeds |-> Filter(seed_list, shift_mode, shift_rolling_sum_width)]

\* The lists of seeds of two sequences of m and n letters: exact matches
\* of a word at different positions, one at least.
SeedLists(m, n) ==
    LET all == EdgeList((0..(m - wordlen)) \X (0..(n - wordlen)))
    IN  {[i \in 1..Len(keep) |->
             [S_idx |-> all[keep[i]][1], T_idx |-> all[keep[i]][2],
              opseq |-> Matches(wordlen)]]
         : keep \in {SelectSeq2([i \in 1..Len(all) |-> i], x)
                       : x \in {y \in SUBSET (1..Len(all)) :
                                   /\ y # {}
                                   /\ Cardinality(y) <= MaxShiftSeeds}}}

InitShift ==
    /\ alphabet = 1 /\ wordlen = 1 /\ int_size = 64
    /\ has_cache = FALSE /\ store = "none"
    /\ log_table = <<>> /\ kmers_table = <<>> /\ cache_table = <<>>
    /\ reads \in [SeqIds -> WordsBetween(1, 1, MaxSeqLen)]
    /\ callers = <<>>
    /\ call = NoCall
    /\ ret = <<>>
    /\ min_margin = 0 /\ vs = {} /\ es = <<>> /\ ws = <<>>
    /\ iG = EmptyGraph
    /\ pool = {} /\ segment = NoSegment /\ emitted = <<>>
    /\ shift_rolling_sum_width \in 1..MaxWidth
    /\ min_shift_freq_coeff \in ShiftCoeffs
    /\ max_shift_freq_coeff \in ShiftCoeffs

\* A call of overlap_by_seed_shift_distribution(seeds, S_id, T_id); the
\* call records the shift distribution it went by.
OverlapByShift(seed_list) ==
    /\ call = NoCall
    /\ call' = [op |-> "overlap_by_seed_shift_distribution",
                seeds |-> seed_list, S_id |-> 1, T_id |-> 2,
                shift_distrib |->
                    _rolling_sum(shift_coverage(seed_list, Len(reads[1]),
                                                Len(reads[2])),
                                 shift_rolling_sum_width)]
    /\ ret' = overlap_by_seed_shift_distribution(seed_list, Len(reads[1]),
                                                 Len(reads[2]))
    /\ UNCHANGED <<assembly, alphabet, wordlen, int_size, has_cache, store,
                   log_table, kmers_table, cache_table, reads, callers>>

NextShift ==
    /\ call = NoCall
    /\ \E seed_list \in SeedLists(Len(reads[1]), Len(reads[2])) :
           OverlapByShift(seed_list)

SpecShift == InitShift /\ [][NextShift]_vars

ShiftCalled == call.op = "overlap_by_seed_shift_distribution"

\* The list _rolling_sum was given by the last call.
ShiftData == shift_coverage(call.seeds, Len(reads[1]), Len(reads[2]))

\* The shift at the first peak of the distribution of the last call.
ModeShift ==
    IndexOf(call.shift_distrib, MaxOf(call.shift_distrib)) - 1 - Len(reads[2])

\* The outcome of the last call is the one the peak of its distribution
\* and its mean decide.
OutcomeFollowsPeak ==
    LET peak == MaxOf(call.shift_distrib) * Len(call.shift_distrib)
        total == SumSeq(call.shift_distrib)
    IN  /\ "kind" \in DOMAIN ret
        /\ peak <= min_shift_freq_coeff * total => ret.kind = "None"
        /\ (peak > min_shift_freq_coeff * total
               /\ peak >= max_shift_freq_coeff * total) => ret.kind = "Segment"
        /\ (peak > min_shift_freq_coeff * total
               /\ peak < max_shift_freq_coeff * total) =>
              /\ ret.kind = "list"
              /\ \A seed \in RangeOf(call.seeds) :
                     seed \in RangeOf(ret.seeds) <=>
                         Abs(seed.S_idx - seed.T_idx - ModeShift)
                             < shift_rolling_sum_width
              /\ Len(ret.seeds) = Cardinality(RangeOf(ret.seeds))

\* C25: every call of overlap_by_seed_shift_distribution with a seed or
\* more returns None, a Segment or a list of seeds, as the peak of the
\* shift distribution and its mean decide.
C25_ThreeOutcomes ==
    ShiftCalled => (call.shift_distrib # <<>> /\ OutcomeFollowsPeak)

\* C26: the Segment of a positive decision starts at (d, 0) for a mode
\* shift d >= 0 and at (0, -d) for d < 0, and its score and the length of
\* its transcript are the number of positions of the |S| x |T| rectangle
\* on the diagonal d.
C26_SegmentOfTheModeShift ==
    (ShiftCalled /\ "kind" \in DOMAIN ret /\ ret.kind = "Segment") =>
        LET d == ModeShift
            on_diagonal == Cardinality(LatticePoints(Len(reads[1]),
                                                     Len(reads[2]), d, d + 1))
        IN  /\ -Len(reads[2]) <= d /\ d < Len(reads[1])
            /\ <<ret.tx.S_idx, ret.tx.T_idx>>
                   = IF d >= 0 THEN <<d, 0>> ELSE <<0, -d>>
            /\ ret.tx.S_idx * ret.tx.T_idx = 0
            /\ ret.tx.score = on_diagonal
            /\ Len(ret.tx.opseq) = on_diagonal

\* C27: _rolling_sum yields nothing for a list shorter than the width and
\* else a value for every index, the sum of the entries from index
\* max(0, idx - width + 1) to idx; the shift distribution of every pair of
\* sequences is not empty, its mean and its mode are defined.
C27_RollingSumDefined ==
    ShiftCalled =>
        /\ IF Len(ShiftData) < shift_rolling_sum_width
           THEN call.shift_distrib = <<>>
           ELSE /\ Len(call.shift_distrib) = Len(ShiftData)
                /\ \A idx \in 0..(Len(ShiftData) - 1) :
                       call.shift_distrib[idx + 1] =
                           SumSeq(SubSeq(ShiftData,
                                         Max(0, idx - shift_rolling_sum_width + 1) + 1,
                                         idx + 1))
        /\ call.shift_distrib # <<>>
        /\ "raised" \notin DOMAIN ret

\* The part of C27 about _rolling_sum alone, and the outcomes of C25 on
\* the pairs whose distribution is not empty.
RollingSumOnLongPairs ==
    (ShiftCalled /\ Len(ShiftData) >= shift_rolling_sum_width) =>
        /\ OutcomeFollowsPeak
        /\ Len(call.shift_distrib) = Len(ShiftData)
        /\ \A idx \in 0..(Len(ShiftData) - 1) :
               call.shift_distrib[idx + 1] =
                   SumSeq(SubSeq(ShiftData,
                                 Max(0, idx - shift_rolling_sum_width + 1) + 1,
                                 idx + 1))

\* C28: in build the weights collected are as many as the edges, the
\* weight at the place of an edge is the score of the overlap the edge
\* came from, and the graph returned carries these weights on its edges.
C28_WeightsMatchEdges ==
    /\ call.op = "build" => Len(ws) = Len(es)
    /\ EdgeAdded => ws[Len(es)] = call.overlap.score
    /\ (call.op = "build" /\ call.pc = "done") =>
           /\ Len(iG.weight) = Len(iG.es)
           /\ iG.weight = ws

====
